---- MODULE Spec2Model ----
(***************************************************************************)
(* A model of stackzilla's dependency-graph resolver (graph/graph.py), of  *)
(* the blueprint diff engine and of the apply orchestrator (diff/diff.py). *)
(***************************************************************************)
EXTENDS Integers, Sequences, FiniteSets, TLC

(***************************************************************************)
(* Bounds of the model.                                                    *)
(***************************************************************************)
\* Number of distinct objects that can be registered as graph nodes.
MaxObjs == 3
\* Total number of dependency entries over all the lists handed to add_node.
MaxEdges == 3

\* Number of attribute names a resource class can declare.
MaxAttrs == 2
\* Attribute values are None and 1..MaxValue.
MaxValue == 1

\* Number of resource paths a blueprint can hold.
MaxRes == 3

\* The major version numbers are 1..MaxMajor, the minor ones 0..MaxMinor.
MaxMajor == 2

MaxMinor == 1

\* Threads that call into one StackzillaSQLiteDB.
MaxThreads == 2

\* Pairs of blueprints loaded and handed to one StackzillaDiff.
MaxLoads == 2

\* Resource paths in the store's tables.
MaxPaths == 2

\* Attributes declared by each resource class the store holds.
StoreAttrs == 2

\* Handler functions and bound methods the program makes for one StackzillaEvent.
MaxHandlers == 3

\* Length of StackzillaEvent._handlers.
MaxAttached == 3

\* Python's None, the default of StackzillaAttribute.default.
None == 0

Objs == 1..MaxObjs

VARIABLES
    nodes,          \* Graph._nodes: the Node records, in dict (insertion) order
    resolve_call,   \* the latest Graph.resolve() call on this graph: input and outcome
    deleted,        \* cli blueprint delete: the resources deleted so far, in order
    resolve_pc,     \* Graph.resolve run pass by pass: "idle", in the "loop", "done" or "raised"
    resolve_nodes,  \* Graph.resolve: the local `nodes`
    resolve_phases, \* Graph.resolve: the local `phases`
    cmp_source,     \* compare_attributes: the `source` resource
    cmp_destination,\* compare_attributes: the `destination` resource
    cmp_pc,         \* compare_attributes: "idle", in the loop over "src" or "dest" attributes, "done"
    cmp_todo,       \* compare_attributes: the attribute names the current loop has yet to visit
    cmp_result,     \* compare_attributes: the local `result`
    cmp_results,    \* compare_attributes: the local `results` (attribute name -> diff entry)
    src_bp,         \* StackzillaDiff._src_blueprint: the on-disk blueprint's resources dict
    dest_bp,        \* StackzillaDiff._dest_blueprint: the database blueprint's resources dict
    db_resources,   \* the store: the StackzillaResource / StackzillaAttribute rows
    db_blueprint,   \* the store: whose packages and modules the blueprint tables hold
    diff_result,    \* StackzillaDiff._result
    last_call,      \* the latest call on the StackzillaDiff and how it ended
    diff_unloadable,\* the destination resources whose load_from_db raised in the latest diff()
    diff_loads,     \* which loaded pair of blueprints _src_blueprint / _dest_blueprint hold (0: none)
    diff_result_of, \* which loaded pair of blueprints _result was computed from (0: none)
    ap_pc,          \* apply(): "idle", "delete_removed", "persist", "phase" or "done"
    ap_phases,      \* apply(): the local `phases`
    ap_phase,       \* apply(): the index of the phase being walked
    ap_todo,        \* apply(): what the current loop has yet to visit
    ap_errors,      \* apply(): the local `errors`
    ap_modified_attrs, \* apply(): the local `modified_attrs` of the CONFLICT resource just visited
    ap_outcome,     \* apply(): "none" while running, then "ok" or the exception raised
    ap_unhandled,   \* apply(): UnhandledAttributeModifications.unhandled_attributes
    ap_log,         \* apply(): the lifecycle calls made so far, in order
    sq_lock,        \* StackzillaSQLiteDB._lock: the thread that holds it, or None
    sq_pc,          \* per thread: where it is inside a StackzillaSQLiteDB method
    sq_call,        \* per thread: the method it is in and the locked sections still to run
    sq_on_connection, \* the threads inside a call on the shared sqlite3 connection
    sq_uncommitted, \* the connection has written rows it has not committed
    sq_table,       \* per resource path: its StackzillaResource row and how many of its
                    \* StackzillaAttribute rows the tables hold
    sq_faults,      \* a sqlite3 call has raised, or the store was found closed, so far
    ev_handlers,    \* StackzillaEvent._handlers: the weak references, by the handler each refers to
    ev_alive,       \* the handlers whose function or owning object has not been garbage collected
    ev_call,        \* the latest call on the StackzillaEvent: its input and outcome
    vf_resource,    \* verify(): the resource's attribute declarations and values
    vf_result       \* verify(): what the latest call raised, with ResourceVerifyError.attribute_errors

graph_vars == <<nodes, resolve_call, deleted, resolve_pc, resolve_nodes, resolve_phases>>

cmp_vars == <<cmp_source, cmp_destination, cmp_pc, cmp_todo, cmp_result, cmp_results>>

bp_vars == <<src_bp, dest_bp, db_resources, db_blueprint, diff_result, last_call,
            diff_unloadable, diff_loads, diff_result_of>>

ap_vars == <<ap_pc, ap_phases, ap_phase, ap_todo, ap_errors, ap_modified_attrs, ap_outcome,
            ap_unhandled, ap_log>>

sq_vars == <<sq_lock, sq_pc, sq_call, sq_on_connection, sq_uncommitted,
            sq_table, sq_faults>>

ev_vars == <<ev_handlers, ev_alive, ev_call>>

vf_vars == <<vf_resource, vf_result>>

vars == <<nodes, resolve_call, deleted, resolve_pc, resolve_nodes, resolve_phases,
          cmp_source, cmp_destination, cmp_pc, cmp_todo, cmp_result, cmp_results,
          src_bp, dest_bp, db_resources, db_blueprint, diff_result, last_call,
          diff_unloadable, diff_loads, diff_result_of,
          ap_pc, ap_phases, ap_phase, ap_todo, ap_errors, ap_modified_attrs, ap_outcome,
          ap_unhandled, ap_log,
          sq_lock, sq_pc, sq_call, sq_on_connection, sq_uncommitted,
          sq_table, sq_faults,
          ev_handlers, ev_alive, ev_call, vf_resource, vf_result>>

(***************************************************************************)
(* Sequence helpers.                                                       *)
(***************************************************************************)
Range(s) == {s[i] : i \in 1..Len(s)}

Reverse(s) == [i \in 1..Len(s) |-> s[Len(s) + 1 - i]]

\* list.remove(x): drops the FIRST occurrence of x (the caller checks `x in s`).
RECURSIVE list_remove(_, _)
list_remove(s, x) ==
    IF s = <<>> THEN <<>>
    ELSE IF Head(s) = x THEN Tail(s)
    ELSE <<Head(s)>> \o list_remove(Tail(s), x)

(***************************************************************************)
(* graph.py                                                                *)
(***************************************************************************)
\* Node.has_dependencies
has_dependencies(node) == node.dependencies /= <<>>

NoCall == [status |-> "none", reverse |-> FALSE, input |-> <<>>,
           phases |-> <<>>, placed |-> <<>>, error_nodes |-> <<>>]

\* The objects registered in a Graph._nodes value, in dict order.
NodeObjs(ns) == [i \in 1..Len(ns) |-> ns[i].obj]

TotalEdges(ns) ==
    LET RECURSIVE sum(_)
        sum(i) == IF i = 0 THEN 0 ELSE Len(ns[i].dependencies) + sum(i - 1)
    IN sum(Len(ns))

\* Graph.add_node: self._nodes[id(obj)] = Node(obj, dependencies).  A new key is
\* appended to the dict, an existing key keeps its position and gets the new Node.
add_node_nodes(ns, obj, dependencies) ==
    IF obj \in Range(NodeObjs(ns))
    THEN [i \in 1..Len(ns) |->
            IF ns[i].obj = obj THEN [obj |-> obj, dependencies |-> dependencies] ELSE ns[i]]
    ELSE Append(ns, [obj |-> obj, dependencies |-> dependencies])

\* Lines 85-90 clearing the whole dependency list of every remaining node.
strip_dependencies_all(deps, current_phase) == <<>>

\* Lines 85-90: for every node of the current phase, `if node in deps: deps.remove(node)`.
RECURSIVE strip_dependencies(_, _)
strip_dependencies(deps, current_phase) ==
    IF current_phase = <<>> THEN deps
    ELSE strip_dependencies(
            IF Head(current_phase) \in Range(deps)
            THEN list_remove(deps, Head(current_phase)) ELSE deps,
            Tail(current_phase))

\* One pass of the `while nodes:` loop that goes on without the check of lines
\* 92-100.
resolve_pass_unchecked(ns) ==
    LET NoDeps(n) == ~has_dependencies(n)
        current_phase == NodeObjs(SelectSeq(ns, NoDeps))
        Kept(n) == n.obj \notin Range(current_phase)
        kept == SelectSeq(ns, Kept)
    IN  [raised |-> FALSE,
         current_phase |-> current_phase,
         nodes |-> [i \in 1..Len(kept) |->
                      [kept[i] EXCEPT !.dependencies =
                          strip_dependencies(@, current_phase)]]]

\* One pass of the `while nodes:` loop of Graph.resolve (lines 66-104) on the
\* working dict ns: the phase collected, the working dict after the pass, and
\* whether the pass raised CircularDependency.
resolve_pass(ns) ==
    LET NoDeps(n) == ~has_dependencies(n)
        current_phase == NodeObjs(SelectSeq(ns, NoDeps))
        Kept(n) == n.obj \notin Range(current_phase)
        kept == SelectSeq(ns, Kept)
        stripped == [i \in 1..Len(kept) |->
                       [kept[i] EXCEPT !.dependencies =
                           strip_dependencies(@, current_phase)]]
        nodes_deleted == current_phase /= <<>>
    IN  [raised |-> ~nodes_deleted /\ stripped /= <<>>,
         current_phase |-> current_phase,
         nodes |-> stripped]

\* The `while nodes:` loop of Graph.resolve from the working dict ns on, phases
\* being the list built so far.
RECURSIVE resolve_loop(_, _)
resolve_loop(ns, phases) ==
    IF ns = <<>>
    THEN [status |-> "ok", phases |-> phases, left |-> <<>>]
    ELSE LET pass == resolve_pass(ns)
         IN  IF pass.raised
             THEN [status |-> "CircularDependency", phases |-> phases, left |-> pass.nodes]
             ELSE resolve_loop(pass.nodes, Append(phases, pass.current_phase))

\* resolve() with a CircularDependency that carries every registered node
\* (self._nodes) instead of the nodes the loop has left.
resolve_error_lists_all(ns, reverse) ==
    LET r == resolve_loop(ns, <<>>)
    IN  [status      |-> r.status,
         phases      |-> IF r.status = "ok"
                         THEN (IF reverse THEN Reverse(r.phases) ELSE r.phases)
                         ELSE <<>>,
         placed      |-> r.phases,
         error_nodes |-> IF r.status = "ok" THEN <<>> ELSE ns,
         nodes       |-> ns]

\* resolve() without the `if reverse: phases.reverse()` of line 107.
resolve_ignores_reverse(ns, reverse) ==
    LET r == resolve_loop(ns, <<>>)
    IN  [status      |-> r.status,
         phases      |-> IF r.status = "ok" THEN r.phases ELSE <<>>,
         placed      |-> r.phases,
         error_nodes |-> IF r.status = "ok" THEN <<>> ELSE r.left,
         nodes       |-> ns]

\* Graph.resolve(reverse): the outcome of the call on the registered nodes ns.
\*   phases      : the returned list (none when the call raises)
\*   placed      : the local `phases` when the call ended
\*   error_nodes : CircularDependency.nodes
\*   nodes       : Graph._nodes after the call (the Node objects are shared with
\*                 the working copy, so their dependency lists have shrunk)
resolve(ns, reverse) ==
    LET r == resolve_loop(ns, <<>>)
        leftObjs == Range(NodeObjs(r.left))
        LeftNode(o) == r.left[CHOOSE i \in 1..Len(r.left) : r.left[i].obj = o]
    IN  [status      |-> r.status,
         phases      |-> IF r.status = "ok"
                         THEN (IF reverse THEN Reverse(r.phases) ELSE r.phases)
                         ELSE <<>>,
         placed      |-> r.phases,
         error_nodes |-> IF r.status = "ok" THEN <<>> ELSE r.left,
         nodes       |-> [i \in 1..Len(ns) |->
                            IF ns[i].obj \in leftObjs
                            THEN LeftNode(ns[i].obj)
                            ELSE [ns[i] EXCEPT !.dependencies = <<>>]]]

(***************************************************************************)
(* attribute/attribute.py and resource/base.py: attributes of a resource   *)
(***************************************************************************)
AttrNames == 1..MaxAttrs

Values == None..MaxValue

\* No StackzillaAttribute of that name on the class.
NoAttr == [declared |-> FALSE, default |-> None, modify_rebuild |-> FALSE,
           dynamic |-> FALSE, assigned |-> FALSE, value |-> None]

\* One attribute name of a resource instance: the StackzillaAttribute declared on
\* the class (default, modify_rebuild, dynamic) and the entry of the instance's
\* __dict__ (assigned, value).  Fields that are not read are kept at None.
AttrStates ==
    {NoAttr} \cup
    {[declared |-> TRUE, default |-> d, modify_rebuild |-> mr, dynamic |-> dy,
      assigned |-> FALSE, value |-> None] : d \in Values, mr \in BOOLEAN, dy \in BOOLEAN} \cup
    {[declared |-> TRUE, default |-> None, modify_rebuild |-> mr, dynamic |-> dy,
      assigned |-> TRUE, value |-> v] : v \in Values, mr \in BOOLEAN, dy \in BOOLEAN}

\* StackzillaResource.attributes: the declared names, in the order of
\* inspect.getmembers (sorted by name).
RECURSIVE attributes_from(_, _)
attributes_from(res, n) ==
    IF n > MaxAttrs THEN <<>>
    ELSE (IF res[n].declared THEN <<n>> ELSE <<>>) \o attributes_from(res, n + 1)

attributes(res) == attributes_from(res, 1)

\* StackzillaResource.get_attribute_value / StackzillaAttribute.__get__
get_attribute_value(res, name) ==
    IF res[name].assigned THEN res[name].value ELSE res[name].default

(***************************************************************************)
(* diff.py: StackzillaDiff.compare_attributes                              *)
(***************************************************************************)
NoDiff == [result |-> "none", src_value |-> None, dest_value |-> None,
           src_attribute |-> FALSE, dest_attribute |-> FALSE]

\* StackzillaAttributeDiff with the two values stored the other way round.
StackzillaAttributeDiff_swapped(src_attribute, dest_attribute, result, src_value, dest_value) ==
    [result |-> result, src_value |-> dest_value, dest_value |-> src_value,
     src_attribute |-> src_attribute, dest_attribute |-> dest_attribute]

\* StackzillaAttributeDiff(...); src_attribute / dest_attribute tell whether the
\* descriptor of that side is recorded (TRUE) or None (FALSE).
StackzillaAttributeDiff(src_attribute, dest_attribute, result, src_value, dest_value) ==
    [result |-> result, src_value |-> src_value, dest_value |-> dest_value,
     src_attribute |-> src_attribute, dest_attribute |-> dest_attribute]

\* `result = CONFLICT` without the test for REBUILD_REQUIRED.
escalate_conflict_unguarded(result) == "CONFLICT"

\* `if result != REBUILD_REQUIRED: result = CONFLICT`
escalate_conflict(result) ==
    IF result /= "REBUILD_REQUIRED" THEN "CONFLICT" ELSE result

\* The body of `for attr_name in src_attributes` (lines 460-497); st is the pair
\* of locals [result, results].
compare_src_attribute(source, destination, attr_name, st) ==
    LET src_val == get_attribute_value(source, attr_name)
        dest_val == get_attribute_value(destination, attr_name)
        conflict == [st.results EXCEPT ![attr_name] =
                        StackzillaAttributeDiff(TRUE, TRUE, "CONFLICT", src_val, dest_val)]
    IN  IF destination[attr_name].declared
        THEN IF src_val /= dest_val
             THEN IF source[attr_name].modify_rebuild
                  THEN [result  |-> "REBUILD_REQUIRED", results |-> conflict]
                  ELSE IF source[attr_name].dynamic
                  THEN st
                  ELSE [result  |-> escalate_conflict(st.result), results |-> conflict]
             ELSE st
        ELSE [result  |-> escalate_conflict(st.result),
              results |-> [st.results EXCEPT ![attr_name] =
                              StackzillaAttributeDiff(TRUE, FALSE, "NEW", src_val, None)]]

\* The destination loop body without the `if attr_name in results: continue`
\* of lines 506-507: an attribute the source loop classified is examined again.
compare_dest_attribute_rescans(source, destination, attr_name, st) ==
    LET src_val == get_attribute_value(source, attr_name)
        dest_val == get_attribute_value(destination, attr_name)
        conflict == [st.results EXCEPT ![attr_name] =
                        StackzillaAttributeDiff(TRUE, TRUE, "CONFLICT", src_val, dest_val)]
    IN  IF source[attr_name].declared
        THEN IF src_val /= dest_val
             THEN IF destination[attr_name].modify_rebuild
                  THEN [result  |-> "REBUILD_REQUIRED", results |-> conflict]
                  ELSE IF destination[attr_name].dynamic
                  THEN st
                  ELSE [result  |-> escalate_conflict(st.result), results |-> conflict]
             ELSE st
        ELSE [result  |-> escalate_conflict(st.result),
              results |-> [st.results EXCEPT ![attr_name] =
                              StackzillaAttributeDiff(FALSE, TRUE, "DELETED", None, dest_val)]]

\* The body of `for attr_name in dest_attributes` (lines 500-539).
compare_dest_attribute(source, destination, attr_name, st) ==
    LET src_val == get_attribute_value(source, attr_name)
        dest_val == get_attribute_value(destination, attr_name)
        conflict == [st.results EXCEPT ![attr_name] =
                        StackzillaAttributeDiff(TRUE, TRUE, "CONFLICT", src_val, dest_val)]
    IN  IF source[attr_name].declared
        THEN IF st.results[attr_name] /= NoDiff
             THEN st
             ELSE IF src_val /= dest_val
             THEN IF destination[attr_name].modify_rebuild
                  THEN [result  |-> "REBUILD_REQUIRED", results |-> conflict]
                  ELSE IF destination[attr_name].dynamic
                  THEN st
                  ELSE [result  |-> escalate_conflict(st.result), results |-> conflict]
             ELSE st
        ELSE [result  |-> escalate_conflict(st.result),
              results |-> [st.results EXCEPT ![attr_name] =
                              StackzillaAttributeDiff(FALSE, TRUE, "DELETED", None, dest_val)]]

\* The locals of compare_attributes before the first loop (lines 452-454).
compare_start == [result |-> "SAME", results |-> [n \in AttrNames |-> NoDiff]]

RECURSIVE compare_src_loop(_, _, _, _)
compare_src_loop(source, destination, todo, st) ==
    IF todo = <<>> THEN st
    ELSE compare_src_loop(source, destination, Tail(todo),
                          compare_src_attribute(source, destination, Head(todo), st))

RECURSIVE compare_dest_loop(_, _, _, _)
compare_dest_loop(source, destination, todo, st) ==
    IF todo = <<>> THEN st
    ELSE compare_dest_loop(source, destination, Tail(todo),
                           compare_dest_attribute(source, destination, Head(todo), st))

\* StackzillaDiff.compare_attributes(source, destination): (result, results)
compare_attributes(source, destination) ==
    compare_dest_loop(source, destination, attributes(destination),
        compare_src_loop(source, destination, attributes(source), compare_start))

\* The attribute maps (name -> AttrStates) of a resource instance.
ResourceAttrs == [AttrNames -> AttrStates]

(***************************************************************************)
(* Blueprints, resource classes and the store                              *)
(***************************************************************************)
Res == 1..MaxRes

\* No class of that path in a blueprint's resources dict.
\* ResourceVersion: major and minor; build and name are, like minor, never read
\* by the program modelled here.
Versions == [major : 1..MaxMajor, minor : 0..MaxMinor]

NoVersion == [major |-> None, minor |-> None]

NoClass == [present |-> FALSE, depends_on |-> <<>>, attrs |-> [n \in AttrNames |-> NoAttr],
            version |-> NoVersion]

\* No row of that path in the StackzillaResource table.
NoRow == [present |-> FALSE, values |-> [n \in AttrNames |-> None], version |-> NoVersion]

\* The paths of a resources dict, in dict order.
RECURSIVE resource_names_from(_, _)
resource_names_from(resources, r) ==
    IF r > MaxRes THEN <<>>
    ELSE (IF resources[r].present THEN <<r>> ELSE <<>>) \o resource_names_from(resources, r + 1)

resource_names(resources) == resource_names_from(resources, 1)

\* resource(): a fresh instance of a blueprint class; its attribute values are
\* what the class declares and its constructor assigns.
new_instance(cls) == cls.attrs

\* StackzillaResource.load_from_db on an instance whose row is in the store:
\* setattr(self, name, <stored value>) for every declared attribute.
load_from_db(attrs, row) ==
    [n \in AttrNames |->
        IF attrs[n].declared
        THEN [attrs[n] EXCEPT !.assigned = TRUE, !.value = row.values[n]]
        ELSE attrs[n]]

\* StackzillaResource.saved_version of an instance of cls: the version of its
\* row once load_from_db has run, the class's version() otherwise.
saved_version(cls, row, loaded) == IF loaded THEN row.version ELSE cls.version

\* StackzillaResource.create_in_db on a fresh instance of cls: the row with the
\* class's version and one attribute row per declared attribute, holding the
\* instance's value.
create_in_db(cls) ==
    [present |-> TRUE,
     version |-> cls.version,
     values |-> [n \in AttrNames |->
                    IF new_instance(cls)[n].declared
                    THEN get_attribute_value(new_instance(cls), n) ELSE None]]

\* create() of a provider's resource class (resource/ssh_key.py, lines 26-50):
\* it assigns the dynamic attributes of the instance, then StackzillaResource.create
\* persists the instance with create_in_db.
create(cls) ==
    create_in_db([cls EXCEPT !.attrs =
        [n \in AttrNames |->
            IF cls.attrs[n].declared /\ cls.attrs[n].dynamic
            THEN [cls.attrs[n] EXCEPT !.assigned = TRUE, !.value = MaxValue]
            ELSE cls.attrs[n]]])

\* update_attribute whose UPDATE changes no row.
update_attribute_no_row(row, name, value) == row

\* StackzillaDB.db.update_attribute(resource, name, value)
update_attribute(row, name, value) == [row EXCEPT !.values[name] = value]

(***************************************************************************)
(* diff.py: StackzillaDiff.diff                                            *)
(***************************************************************************)
NoAttrDiffs == [n \in AttrNames |-> NoDiff]

NoResourceDiff == [result |-> "none", src_resource |-> FALSE, dest_resource |-> FALSE,
                   attribute_diffs |-> NoAttrDiffs]

\* StackzillaResourceDiff(...); src_resource / dest_resource tell whether an
\* instance of that side is recorded (TRUE) or None (FALSE).
StackzillaResourceDiff(src_resource, dest_resource, result, attribute_diffs) ==
    [result |-> result, src_resource |-> src_resource, dest_resource |-> dest_resource,
     attribute_diffs |-> attribute_diffs]

\* StackzillaDiff._result before the first successful diff().
NoResult == [computed |-> FALSE, result |-> "SAME",
             resource_diffs |-> [r \in Res |-> NoResourceDiff]]

\* Lines 332-336 and 341-345: every key is re-inserted under the name with the
\* namespace prefix replaced and the old key is deleted.  A key that carries no
\* prefix is re-inserted under its own name and then deleted.
rename_keys(bp) ==
    IF bp.prefixed
    THEN [bp EXCEPT !.prefixed = FALSE]
    ELSE [bp EXCEPT !.resources = [r \in Res |-> NoClass]]

\* Lines 348-354 without the `del`: every destination class is kept.
drop_not_loadable_kept(bp, rows) == bp

\* Lines 348-353: the keys of the renamed destination dict whose load_from_db
\* raises ResourceNotFound.
not_loadable(bp, rows) ==
    {r \in Res : rename_keys(bp).resources[r].present /\ ~rows[r].present}

\* Lines 348-354: destination classes whose row cannot be loaded are dropped.
drop_not_loadable(bp, rows) ==
    [bp EXCEPT !.resources =
        [r \in Res |-> IF bp.resources[r].present /\ ~rows[r].present
                       THEN NoClass ELSE bp.resources[r]]]

\* compare_versions with the whole version compared instead of the major number.
compare_versions_whole(src_cls, dest_cls, row) ==
    IF src_cls.version /= saved_version(dest_cls, row, TRUE)
    THEN "VersionIncompatibility" ELSE "ok"

\* StackzillaDiff.compare_versions(source, destination), the destination being
\* an instance of dest_cls loaded from row.
compare_versions(src_cls, dest_cls, row) ==
    IF src_cls.version.major /= saved_version(dest_cls, row, TRUE).major
    THEN "VersionIncompatibility" ELSE "ok"

\* Pass 1 with a lookup in the destination that never finds the resource: every
\* source resource is reported NEW.
diff_src_resource_never_found(src_resources, dest_resources, rows, resource_name, acc) ==
    LET src_resource == new_instance(src_resources[resource_name])
    IN  [acc EXCEPT
            !.result = "CONFLICT",
            !.diffs[resource_name] =
                StackzillaResourceDiff(TRUE, FALSE, "NEW",
                    [n \in AttrNames |->
                        IF src_resource[n].declared
                        THEN StackzillaAttributeDiff(TRUE, FALSE, "NEW",
                                get_attribute_value(src_resource, n), None)
                        ELSE NoDiff])]

\* The body of pass 1 (lines 357-408) for one source resource; acc holds the
\* locals result and diffs, and raised once compare_versions has raised.
diff_src_resource(src_resources, dest_resources, rows, resource_name, acc) ==
    LET src_resource == new_instance(src_resources[resource_name])
    IN  IF dest_resources[resource_name].present
        THEN LET dest_resource == load_from_db(new_instance(dest_resources[resource_name]),
                                               rows[resource_name])
                 cmp == compare_attributes(src_resource, dest_resource)
             IN  IF compare_versions(src_resources[resource_name],
                                     dest_resources[resource_name],
                                     rows[resource_name]) /= "ok"
                 THEN [acc EXCEPT !.raised = TRUE]
                 ELSE IF cmp.result = "SAME"
                 THEN [acc EXCEPT
                         !.diffs[resource_name] =
                             StackzillaResourceDiff(TRUE, TRUE, "SAME", NoAttrDiffs)]
                 ELSE [acc EXCEPT
                         !.result = cmp.result,
                         !.diffs[resource_name] =
                             StackzillaResourceDiff(TRUE, TRUE, cmp.result, cmp.results)]
        ELSE [acc EXCEPT
                !.result = "CONFLICT",
                !.diffs[resource_name] =
                    StackzillaResourceDiff(TRUE, FALSE, "NEW",
                        [n \in AttrNames |->
                            IF src_resource[n].declared
                            THEN StackzillaAttributeDiff(TRUE, FALSE, "NEW",
                                    get_attribute_value(src_resource, n), None)
                            ELSE NoDiff])]

\* Pass 2 that records nothing: the resources left in the destination only get
\* no resource diff.
diff_dest_resource_skipped(dest_resources, resource_name, acc) == acc

\* The body of pass 2 (lines 411-435) for one destination resource.  The
\* instance is fresh: its values are those of the class, not the stored ones.
diff_dest_resource(dest_resources, resource_name, acc) ==
    LET dest_resource == new_instance(dest_resources[resource_name])
    IN  IF acc.diffs[resource_name] /= NoResourceDiff
        THEN acc
        ELSE [acc EXCEPT
                !.result = "CONFLICT",
                !.diffs[resource_name] =
                    StackzillaResourceDiff(FALSE, TRUE, "DELETED",
                        [n \in AttrNames |->
                            IF dest_resource[n].declared
                            THEN StackzillaAttributeDiff(FALSE, TRUE, "DELETED",
                                    None, get_attribute_value(dest_resource, n))
                            ELSE NoDiff])]

\* Pass 1: the loop ends at the first resource whose compare_versions raises.
RECURSIVE diff_pass1(_, _, _, _, _)
diff_pass1(src_resources, dest_resources, rows, todo, acc) ==
    IF todo = <<>> \/ acc.raised THEN acc
    ELSE diff_pass1(src_resources, dest_resources, rows, Tail(todo),
                    diff_src_resource(src_resources, dest_resources, rows, Head(todo), acc))

RECURSIVE diff_pass2(_, _, _)
diff_pass2(dest_resources, todo, acc) ==
    IF todo = <<>> THEN acc
    ELSE diff_pass2(dest_resources, Tail(todo),
                    diff_dest_resource(dest_resources, Head(todo), acc))

\* StackzillaDiff.diff(source, destination) against the rows of the store: the
\* two blueprints as the call leaves them, how the call ends, and the
\* StackzillaBlueprintDiff it assigns to _result when it returns.
diff(source, destination, rows) ==
    LET src == rename_keys(source)
        dest == drop_not_loadable(rename_keys(destination), rows)
        start == [result |-> "SAME", diffs |-> [r \in Res |-> NoResourceDiff],
                  raised |-> FALSE]
        pass1 == diff_pass1(src.resources, dest.resources, rows,
                            resource_names(src.resources), start)
        pass2 == diff_pass2(dest.resources, resource_names(dest.resources), pass1)
    IN  [source |-> src, destination |-> dest,
         outcome |-> IF pass1.raised THEN "VersionIncompatibility" ELSE "ok",
         result |-> [computed |-> TRUE, result |-> pass2.result,
                     resource_diffs |-> pass2.diffs]]

(***************************************************************************)
(* diff.py: StackzillaDiff.apply                                           *)
(***************************************************************************)
\* Lines 189-195: the graph of the source blueprint's classes and depends_on().
apply_graph(resources) ==
    LET names == resource_names(resources)
    IN  [i \in 1..Len(names) |->
            [obj |-> names[i], dependencies |-> resources[names[i]].depends_on]]

\* Lines 203-204: the destination resources that are not in the source.
removed_resources(src_resources, dest_resources) ==
    LET Removed(r) == ~src_resources[r].present
    IN  SelectSeq(resource_names(dest_resources), Removed)

\* The attribute names of a resource diff's attribute_diffs, in dict order.
diff_attr_names(attribute_diffs) ==
    LET Has(n) == attribute_diffs[n] /= NoDiff
    IN  SelectSeq([n \in 1..MaxAttrs |-> n], Has)

\* What the hooks of one CONFLICT resource did to an attribute (lines 236-258):
\* hook is "none" (no <attribute>_modified method), "handled" (it returned) or
\* "error" (it raised AttributeModifyFailure); claimed tells whether the
\* on_attributes_modified hook set handled on it.
AttributeModified(hook, claimed) ==
    [handled |-> (hook = "handled") \/ claimed, error |-> hook = "error"]

HookOutcomes == {"none", "handled", "error"}

\* Lines 262-271: the three ways the loop over modified_attrs treats an attribute.
attr_is_error(m) == m.error

attr_is_unhandled(m) == ~m.error /\ ~m.handled

\* The test of line 268 replaced by a plain else: whatever raised no error is written.
attr_is_persisted_unless_error(m) == ~m.error

attr_is_persisted(m) == ~m.error /\ m.handled

\* Lines 262-271 for the attributes todo of one resource: the rows of the store
\* after the update_attribute calls.
RECURSIVE persist_handled(_, _, _, _)
persist_handled(row, attribute_diffs, modified_attrs, todo) ==
    IF todo = <<>> THEN row
    ELSE persist_handled(
            IF attr_is_persisted(modified_attrs[Head(todo)])
            THEN update_attribute(row, Head(todo), attribute_diffs[Head(todo)].src_value)
            ELSE row,
            attribute_diffs, modified_attrs, Tail(todo))

\* An entry of `errors`: the resource and, for a failed attribute hook, the attribute.
ApplyError(resource, attribute, reason) ==
    [resource |-> resource, attribute |-> attribute, reason |-> reason]

\* Line 265: the error strings of the attributes whose hook raised.
attribute_errors(resource, modified_attrs, todo) ==
    LET Failed(n) == attr_is_error(modified_attrs[n])
        failed == SelectSeq(todo, Failed)
    IN  [i \in 1..Len(failed) |-> ApplyError(resource, failed[i], "AttributeModifyFailure")]

LogEntry(op, resource) == [op |-> op, resource |-> resource]

\* The phase loop without the `if errors: raise ApplyErrors` of lines 304-306
\* inside it: the check is made after the last phase only.
end_of_phase_unchecked(errors, phases, phase) ==
    IF phase < Len(phases)
    THEN [pc |-> "phase", outcome |-> "none", phase |-> phase + 1, todo |-> phases[phase + 1]]
    ELSE IF errors /= <<>>
    THEN [pc |-> "done", outcome |-> "ApplyErrors", phase |-> phase, todo |-> <<>>]
    ELSE [pc |-> "done", outcome |-> "ok", phase |-> phase, todo |-> <<>>]

\* Lines 304-306 and the `for phase in phases` loop: where apply() goes once the
\* resources of phase number `phase` have all been visited.
end_of_phase(errors, phases, phase) ==
    IF errors /= <<>> THEN [pc |-> "done", outcome |-> "ApplyErrors", phase |-> phase, todo |-> <<>>]
    ELSE IF phase < Len(phases)
    THEN [pc |-> "phase", outcome |-> "none", phase |-> phase + 1, todo |-> phases[phase + 1]]
    ELSE [pc |-> "done", outcome |-> "ok", phase |-> phase, todo |-> <<>>]

\* No modified_attrs: apply() is not in the CONFLICT branch.
NoModified == [resource |-> None,
               attrs |-> [n \in AttrNames |-> [handled |-> FALSE, error |-> FALSE]]]

Threads == 1..MaxThreads

\* The resource paths the threads create and read, each resource with StoreAttrs attributes.
Paths == 1..MaxPaths

\* A call of a StackzillaSQLiteDB method: the locked sections it has yet to run, each a list
\* of statements, what it will raise once the lock is released, and the paths its
\* SELECT of all resources fetched.
StoreCall(op, path, sections) ==
    [op |-> op, path |-> path, sections |-> sections, raised |-> "none", paths |-> <<>>]

\* The thread is in no StackzillaSQLiteDB method.
NoStoreCall == StoreCall("none", None, <<>>)

\* An open database nobody is using.
SqIdle ==
    /\ sq_lock = None
    /\ sq_pc = [t \in Threads |-> "idle"]
    /\ sq_call = [t \in Threads |-> NoStoreCall]
    /\ sq_on_connection = {}
    /\ sq_uncommitted = FALSE
    /\ sq_table = [p \in Paths |-> [row |-> FALSE, attributes |-> 0]]
    /\ sq_faults = FALSE

Handlers == 1..MaxHandlers

\* No call has been made on the StackzillaEvent.
NoEventCall == [op |-> "none", handler |-> None, raised |-> "none",
                handlers |-> <<>>, alive |-> {}, called |-> [h \in Handlers |-> 0]]

\* A new StackzillaEvent; every handler the program will ever make is still referenced.
EvIdle ==
    /\ ev_handlers = <<>>
    /\ ev_alive = Handlers
    /\ ev_call = NoEventCall

\* A Python value an attribute can hold: None, an int, a str (v is its length) or a list of ints.
PyValue(type, v, items) == [type |-> type, v |-> v, items |-> items]

PyNone == PyValue("NoneType", 0, <<>>)

PyInt(i) == PyValue("int", i, <<>>)

\* StackzillaAttribute() with every argument left at its default, the value unset.
NoVerifyAttr == [choices |-> {}, required |-> FALSE, dynamic |-> FALSE,
                 number_range |-> [given |-> FALSE, min |-> 0, max |-> 0],
                 types |-> <<>>, value |-> PyNone]

\* verify() has not been called.
NoVerify == [called |-> FALSE, raised |-> "none",
             attribute_errors |-> [n \in AttrNames |-> <<>>]]

VfIdle ==
    /\ vf_resource = [n \in AttrNames |-> NoVerifyAttr]
    /\ vf_result = NoVerify

ApplyIdle ==
    /\ ap_pc = "idle"
    /\ ap_modified_attrs = NoModified
    /\ ap_phases = <<>>
    /\ ap_phase = 0
    /\ ap_todo = <<>>
    /\ ap_errors = <<>>
    /\ ap_outcome = "none"
    /\ ap_unhandled = {}
    /\ ap_log = <<>>

\* No call has been made on the StackzillaDiff.
NoCallYet == [op |-> "none", outcome |-> "none"]

NoBlueprint == [prefixed |-> TRUE, resources |-> [r \in Res |-> NoClass]]

BlueprintIdle ==
    /\ src_bp = NoBlueprint
    /\ dest_bp = NoBlueprint
    /\ db_resources = [r \in Res |-> NoRow]
    /\ db_blueprint = "none"
    /\ diff_result = NoResult
    /\ last_call = NoCallYet
    /\ diff_unloadable = {}
    /\ diff_loads = 0
    /\ diff_result_of = 0

CmpIdle ==
    /\ cmp_source = [n \in AttrNames |-> NoAttr]
    /\ cmp_destination = [n \in AttrNames |-> NoAttr]
    /\ cmp_pc = "idle"
    /\ cmp_todo = <<>>
    /\ cmp_result = "SAME"
    /\ cmp_results = [n \in AttrNames |-> NoDiff]

\* No resolve() is being followed pass by pass.
ResolveIdle ==
    /\ resolve_pc = "idle"
    /\ resolve_nodes = <<>>
    /\ resolve_phases = <<>>

GraphIdle ==
    /\ nodes = <<>>
    /\ resolve_call = NoCall
    /\ deleted = <<>>
    /\ ResolveIdle

\* Where the scan continues once the loop over `todo` has been left.
cmp_next_pc(pc, todo, destination) ==
    IF todo /= <<>> THEN pc
    ELSE IF pc = "src" /\ attributes(destination) /= <<>> THEN "dest"
    ELSE "done"

cmp_next_todo(pc, todo, destination) ==
    IF todo /= <<>> THEN todo
    ELSE IF pc = "src" THEN attributes(destination)
    ELSE <<>>

\* compare_attributes is entered with two resource instances.
CmpInit ==
    /\ SqIdle
    /\ EvIdle
    /\ VfIdle
    /\ GraphIdle
    /\ BlueprintIdle
    /\ ApplyIdle
    /\ cmp_source \in ResourceAttrs
    /\ cmp_destination \in ResourceAttrs
    /\ cmp_pc = cmp_next_pc("src", attributes(cmp_source), cmp_destination)
    /\ cmp_todo = cmp_next_todo("src", attributes(cmp_source), cmp_destination)
    /\ cmp_result = compare_start.result
    /\ cmp_results = compare_start.results

\* One iteration of the loop over the source's attributes.
compare_src_step ==
    /\ cmp_pc = "src"
    /\ cmp_todo /= <<>>
    /\ LET st == compare_src_attribute(cmp_source, cmp_destination, Head(cmp_todo),
                                       [result |-> cmp_result, results |-> cmp_results])
       IN  /\ cmp_result' = st.result
           /\ cmp_results' = st.results
    /\ cmp_pc' = cmp_next_pc("src", Tail(cmp_todo), cmp_destination)
    /\ cmp_todo' = cmp_next_todo("src", Tail(cmp_todo), cmp_destination)
    /\ UNCHANGED <<cmp_source, cmp_destination>>
    /\ UNCHANGED <<ev_vars, vf_vars, sq_vars, graph_vars, bp_vars, ap_vars>>

\* One iteration of the loop over the destination's attributes.
compare_dest_step ==
    /\ cmp_pc = "dest"
    /\ cmp_todo /= <<>>
    /\ LET st == compare_dest_attribute(cmp_source, cmp_destination, Head(cmp_todo),
                                        [result |-> cmp_result, results |-> cmp_results])
       IN  /\ cmp_result' = st.result
           /\ cmp_results' = st.results
    /\ cmp_pc' = cmp_next_pc("dest", Tail(cmp_todo), cmp_destination)
    /\ cmp_todo' = cmp_next_todo("dest", Tail(cmp_todo), cmp_destination)
    /\ UNCHANGED <<cmp_source, cmp_destination>>
    /\ UNCHANGED <<ev_vars, vf_vars, sq_vars, graph_vars, bp_vars, ap_vars>>

CmpNext == compare_src_step \/ compare_dest_step

SpecCompare == CmpInit /\ [][CmpNext]_vars

DepLists(n) == UNION {[1..k -> Objs] : k \in 0..n}

GraphInit ==
    /\ SqIdle
    /\ EvIdle
    /\ VfIdle
    /\ GraphIdle
    /\ CmpIdle
    /\ BlueprintIdle
    /\ ApplyIdle

\* graph.add_node(obj, dependencies)
add_node ==
    \E obj \in Objs :
      \E dependencies \in DepLists(MaxEdges) :
        /\ TotalEdges(add_node_nodes(nodes, obj, dependencies)) <= MaxEdges
        /\ nodes' = add_node_nodes(nodes, obj, dependencies)
        /\ resolve_call' = NoCall
        /\ deleted' = <<>>
        /\ UNCHANGED <<resolve_pc, resolve_nodes, resolve_phases>>
        /\ UNCHANGED <<ev_vars, vf_vars, sq_vars, cmp_vars, bp_vars, ap_vars>>

\* graph.resolve(reverse)
Resolve ==
    \E reverse \in BOOLEAN :
      LET r == resolve(nodes, reverse)
      IN  /\ nodes' = r.nodes
          /\ resolve_call' = [status |-> r.status, reverse |-> reverse, input |-> nodes,
                              phases |-> r.phases, placed |-> r.placed,
                              error_nodes |-> r.error_nodes]
          /\ deleted' = <<>>
          /\ UNCHANGED <<resolve_pc, resolve_nodes, resolve_phases>>
          /\ UNCHANGED <<ev_vars, vf_vars, sq_vars, cmp_vars, bp_vars, ap_vars>>

RECURSIVE Flatten(_)
Flatten(phases) ==
    IF phases = <<>> THEN <<>> ELSE Head(phases) \o Flatten(Tail(phases))

\* cli `blueprint delete`: build a fresh graph from the blueprint's resources and
\* their depends_on() lists, resolve it in reverse and delete phase by phase the
\* resources found in the database.  A CircularDependency, or an exception of one
\* obj.delete(), ends the command there.
blueprint_delete ==
    \E dry_run \in BOOLEAN :
      \E in_db \in SUBSET Range(NodeObjs(nodes)) :
        LET r == resolve(nodes, TRUE)
            InDb(o) == o \in in_db
            todo == IF dry_run THEN <<>> ELSE SelectSeq(Flatten(r.phases), InDb)
        IN  /\ nodes /= <<>>
            /\ resolve_call' = [status |-> r.status, reverse |-> TRUE, input |-> nodes,
                                phases |-> r.phases, placed |-> r.placed,
                                error_nodes |-> r.error_nodes]
            /\ \E n \in 0..Len(todo) : deleted' = SubSeq(todo, 1, n)
            /\ UNCHANGED nodes
            /\ UNCHANGED <<resolve_pc, resolve_nodes, resolve_phases>>
            /\ UNCHANGED <<ev_vars, vf_vars, sq_vars, cmp_vars, bp_vars, ap_vars>>

GraphNext == add_node \/ Resolve \/ blueprint_delete

SpecGraph == GraphInit /\ [][GraphNext]_vars

(***************************************************************************)
(* Properties of the graph resolver.                                       *)
(***************************************************************************)
Registered(g) == Range(NodeObjs(g))

\* The dependencies of the registered object o in g, as a set.
DepSet(g, o) == UNION {Range(g[i].dependencies) : i \in {j \in 1..Len(g) : g[j].obj = o}}

AllRegistered(g) == \A o \in Registered(g) : DepSet(g, o) \subseteq Registered(g)

\* Everything o depends on, directly or not.
RECURSIVE DependsClosure(_, _)
DependsClosure(g, S) ==
    LET T == S \cup UNION {DepSet(g, o) : o \in S}
    IN  IF T = S THEN S ELSE DependsClosure(g, T)

OnCycle(g, o) == o \in DependsClosure(g, DepSet(g, o))

HasCycle(g) == \E o \in Registered(g) : OnCycle(g, o)

PhaseObjs(phases, k) == UNION {Range(phases[j]) : j \in 1..k}

\* phases is the layered order of g: phase k holds exactly the nodes not placed
\* before whose dependencies were all placed before, each node once, until no
\* node is left.
IsLayered(g, phases) ==
    /\ \A k \in 1..Len(phases) :
         /\ Range(phases[k]) =
              {o \in Registered(g) \ PhaseObjs(phases, k - 1) :
                  DepSet(g, o) \subseteq PhaseObjs(phases, k - 1)}
         /\ Cardinality(Range(phases[k])) = Len(phases[k])
         /\ phases[k] /= <<>>
    /\ PhaseObjs(phases, Len(phases)) = Registered(g)

\* C1: for registered nodes whose dependencies are all registered and acyclic,
\* resolve() returns the layered order (phase 0 the nodes without dependencies,
\* each later phase the remaining nodes whose dependencies lie in earlier phases).
C1_ResolveReturnsLayeredOrder ==
    (/\ resolve_call.status /= "none"
     /\ ~resolve_call.reverse
     /\ AllRegistered(resolve_call.input)
     /\ ~HasCycle(resolve_call.input))
    => (/\ resolve_call.status = "ok"
        /\ IsLayered(resolve_call.input, resolve_call.phases))

\* C2: when the registered dependencies contain a cycle, resolve() raises
\* CircularDependency, returns no phases, and the error lists each node that was
\* not placed in a phase exactly once and no node that was placed; every node on
\* a cycle is listed.
C2_CycleRaisesWithUnplacedNodes ==
    (resolve_call.status /= "none" /\ HasCycle(resolve_call.input))
    => LET g == resolve_call.input
           listed == NodeObjs(resolve_call.error_nodes)
           placed == PhaseObjs(resolve_call.placed, Len(resolve_call.placed))
       IN  /\ resolve_call.status = "CircularDependency"
           /\ resolve_call.phases = <<>>
           /\ Range(listed) = Registered(g) \ placed
           /\ Cardinality(Range(listed)) = Len(listed)
           /\ {o \in Registered(g) : OnCycle(g, o)} \subseteq Range(listed)
           /\ \A o \in placed : DepSet(g, o) \subseteq placed

\* An independent node is placed, then the cycle of the two others is reported.
C2_Witness ==
    /\ resolve_call.status = "CircularDependency"
    /\ Len(resolve_call.placed) = 1
    /\ Len(resolve_call.error_nodes) = 2
    /\ \A o \in Range(NodeObjs(resolve_call.error_nodes)) : OnCycle(resolve_call.input, o)

PhaseOf(phases, o) == CHOOSE k \in 1..Len(phases) : o \in Range(phases[k])

\* C3: resolve(reverse=True) returns the phases of resolve(reverse=False) on the
\* same nodes in reversed order, so each node is in a strictly earlier phase than
\* each of its dependencies; blueprint delete deletes a dependent resource before
\* the resources it depends on.
C3_ReverseIsForwardReversed ==
    (resolve_call.status = "ok" /\ resolve_call.reverse)
    => LET g == resolve_call.input
           p == resolve_call.phases
           fwd == resolve(g, FALSE)
       IN  /\ fwd.status = "ok"
           /\ p = Reverse(fwd.phases)
           /\ \A o \in Registered(g) : \A d \in DepSet(g, o) :
                /\ d \in PhaseObjs(p, Len(p))
                /\ PhaseOf(p, o) < PhaseOf(p, d)
           /\ \A a, b \in 1..Len(deleted) :
                deleted[b] \in DepSet(g, deleted[a]) => a < b

\* A chain of three resources resolved in reverse and deleted by the command.
C3_Witness ==
    /\ resolve_call.status = "ok"
    /\ resolve_call.reverse
    /\ Len(resolve_call.phases) = 3
    /\ Len(deleted) = 3

(***************************************************************************)
(* Properties of compare_attributes.                                       *)
(***************************************************************************)
Rank(result) ==
    CASE result = "SAME" -> 0
      [] result = "CONFLICT" -> 1
      [] result = "REBUILD_REQUIRED" -> 2

\* The attribute is declared on both sides and its two values differ.
Differs(n) ==
    /\ cmp_source[n].declared
    /\ cmp_destination[n].declared
    /\ get_attribute_value(cmp_source, n) /= get_attribute_value(cmp_destination, n)

\* The tag an attribute diff entry can carry, by where the attribute is declared.
OwnTag(n) ==
    IF cmp_source[n].declared /\ cmp_destination[n].declared THEN "CONFLICT"
    ELSE IF cmp_source[n].declared THEN "NEW"
    ELSE "DELETED"

\* C8: within one compare_attributes call the resource-level result only ever
\* escalates SAME -> CONFLICT -> REBUILD_REQUIRED; a differing rebuild-on-change
\* attribute makes the final result REBUILD_REQUIRED whatever is examined after
\* it, and every entry keeps its own CONFLICT / NEW / DELETED tag.
C8_ResultOnlyEscalates ==
    [][/\ Rank(cmp_result') >= Rank(cmp_result)
       /\ \A n \in AttrNames :
            /\ cmp_results[n] /= NoDiff => cmp_results'[n] = cmp_results[n]
            /\ cmp_results'[n] /= NoDiff => cmp_results'[n].result = OwnTag(n)
       /\ (cmp_pc' = "done" /\ \E n \in AttrNames : Differs(n) /\ cmp_source[n].modify_rebuild)
            => cmp_result' = "REBUILD_REQUIRED"]_vars

\* A rebuild-on-change attribute differs, and the attribute scanned after it is a
\* plain conflict.
C8_Witness ==
    /\ cmp_pc = "done"
    /\ cmp_result = "REBUILD_REQUIRED"
    /\ Differs(1) /\ cmp_source[1].modify_rebuild
    /\ Differs(MaxAttrs) /\ ~cmp_source[MaxAttrs].modify_rebuild
    /\ cmp_results[MaxAttrs].result = "CONFLICT"

\* C9: an attribute on both sides whose values differ and which is neither
\* dynamic nor rebuild-on-change gets a CONFLICT entry with the source's value as
\* src_value and the destination's as dest_value, and the resource-level result
\* is CONFLICT unless another differing attribute made it REBUILD_REQUIRED.
C9_ConflictEntry ==
    cmp_pc = "done"
    => \A n \in AttrNames :
         (Differs(n) /\ ~cmp_source[n].dynamic /\ ~cmp_source[n].modify_rebuild)
         => /\ cmp_results[n] =
                 [result |-> "CONFLICT",
                  src_value |-> get_attribute_value(cmp_source, n),
                  dest_value |-> get_attribute_value(cmp_destination, n),
                  src_attribute |-> TRUE, dest_attribute |-> TRUE]
            /\ cmp_result \in {"CONFLICT", "REBUILD_REQUIRED"}
            /\ cmp_result = "REBUILD_REQUIRED"
                 => \E m \in AttrNames \ {n} :
                      Differs(m) /\ (cmp_source[m].modify_rebuild
                                     \/ cmp_destination[m].modify_rebuild)

\* One attribute changed by an assignment on the source instance, another one by
\* a changed default.
C9_Witness ==
    /\ cmp_pc = "done"
    /\ cmp_result = "CONFLICT"
    /\ Differs(1) /\ cmp_source[1].assigned /\ ~cmp_destination[1].assigned
    /\ Differs(MaxAttrs) /\ ~cmp_source[MaxAttrs].assigned /\ ~cmp_destination[MaxAttrs].assigned
    /\ cmp_results[1].result = "CONFLICT"
    /\ cmp_results[1].src_value /= cmp_results[1].dest_value
    /\ cmp_results[MaxAttrs].result = "CONFLICT"

\* C10: a dynamic attribute on both sides with different values is skipped: no
\* entry, no escalation, also when it is rebuild-on-change as well; a resource
\* whose only differences are dynamic attributes compares SAME.
C10_DynamicSkipped ==
    cmp_pc = "done"
    => /\ \A n \in AttrNames :
            (Differs(n) /\ cmp_source[n].dynamic /\ cmp_destination[n].dynamic
             /\ cmp_source[n].modify_rebuild = cmp_destination[n].modify_rebuild)
            => cmp_results[n] = NoDiff
       /\ (\A n \in AttrNames :
              /\ cmp_source[n].declared = cmp_destination[n].declared
              /\ Differs(n) => (cmp_source[n].dynamic /\ cmp_destination[n].dynamic))
            => cmp_result = "SAME"

\* The resource-level result once an attribute that is on one side only is met.
Escalated(result) == IF result = "REBUILD_REQUIRED" THEN "REBUILD_REQUIRED" ELSE "CONFLICT"

\* C12: an attribute declared only on the source gets one entry tagged NEW with
\* no destination attribute, one declared only on the destination gets one entry
\* tagged DELETED with no source attribute, each raises the result to CONFLICT
\* unless it is REBUILD_REQUIRED already, and the destination scan leaves alone
\* an attribute the source scan gave an entry.
C12_OneSidedAttributes ==
    [][cmp_todo /= <<>> =>
        LET n == Head(cmp_todo)
        IN  /\ (cmp_pc = "src" /\ ~cmp_destination[n].declared)
                 => /\ cmp_results'[n] =
                         [result |-> "NEW", src_attribute |-> TRUE, dest_attribute |-> FALSE,
                          src_value |-> get_attribute_value(cmp_source, n), dest_value |-> None]
                    /\ cmp_result' = Escalated(cmp_result)
            /\ (cmp_pc = "dest" /\ ~cmp_source[n].declared)
                 => /\ cmp_results[n] = NoDiff
                    /\ cmp_results'[n] =
                         [result |-> "DELETED", src_attribute |-> FALSE, dest_attribute |-> TRUE,
                          src_value |-> None,
                          dest_value |-> get_attribute_value(cmp_destination, n)]
                    /\ cmp_result' = Escalated(cmp_result)
            /\ (cmp_pc = "dest" /\ cmp_results[n] /= NoDiff)
                 => /\ cmp_results' = cmp_results
                    /\ cmp_result' = cmp_result
            /\ \A m \in AttrNames \ {n} : cmp_results'[m] = cmp_results[m]
            /\ cmp_pc' = "done"
                 => \A m \in AttrNames :
                      /\ (cmp_source[m].declared /\ ~cmp_destination[m].declared)
                           => cmp_results'[m].result = "NEW"
                      /\ (cmp_destination[m].declared /\ ~cmp_source[m].declared)
                           => cmp_results'[m].result = "DELETED"]_vars

\* One attribute is on the source only, another on the destination only.
C12_Witness ==
    /\ cmp_pc = "done"
    /\ cmp_result = "CONFLICT"
    /\ cmp_source[1].declared /\ ~cmp_destination[1].declared
    /\ cmp_results[1].result = "NEW"
    /\ cmp_destination[MaxAttrs].declared /\ ~cmp_source[MaxAttrs].declared
    /\ cmp_results[MaxAttrs].result = "DELETED"

(***************************************************************************)
(* diff() followed by apply() on one pair of blueprints                    *)
(***************************************************************************)
\* How a resource path stands before diff(): declared on disk ("new"), on disk
\* and in the database blueprint with its row ("both") or without it
\* ("unstored"), only in the database blueprint with its row ("gone") or without
\* it ("ghost"), or nowhere ("absent").
Kinds == {"absent", "new", "both", "unstored", "gone", "ghost"}

InSource(kind) == kind \in {"new", "both", "unstored"}

InDestination(kind) == kind \in {"both", "unstored", "gone", "ghost"}

InStore(kind) == kind \in {"both", "gone"}

\* The depends_on() lists of the blueprint classes: nothing, or one other resource.
DependsOnLists(r) == {<<>>} \cup {<<d>> : d \in Res \ {r}}

\* The attributes every class of the blueprints declares: each with default 1,
\* the first one rebuild-on-change when rebuild is set.
ClassAttrs(rebuild) ==
    [n \in AttrNames |->
        [declared |-> TRUE, default |-> 1, modify_rebuild |-> (n = 1) /\ rebuild,
         dynamic |-> FALSE, assigned |-> FALSE, value |-> None]]

\* The version() of every class of the blueprints.
ClassVersion == [major |-> 1, minor |-> 0]

ResourceSetups ==
    [kind : Kinds, depends_on : UNION {DependsOnLists(r) : r \in Res},
     values : [AttrNames -> Values], stored : Versions]

\* Only what the program reads is varied: the dependencies of a source class,
\* the stored values and the stored version of a resource that is compared.  A
\* resource stored under another major version is never compared nor applied; a
\* stored minor number that differs is tried on unchanged resources without
\* dependencies.
SetupOk(r, c) ==
    /\ c.depends_on \in DependsOnLists(r)
    /\ ~InSource(c.kind) => c.depends_on = <<>>
    /\ c.kind /= "both" => c.values = [n \in AttrNames |-> 1]
    /\ c.kind /= "both" => c.stored = ClassVersion
    /\ c.stored /= ClassVersion
         => c.depends_on = <<>> /\ c.values = [n \in AttrNames |-> 1]
    /\ c.stored.major /= ClassVersion.major => c.stored.minor = ClassVersion.minor

\* The setups some resource can have.
ValidSetups == {c \in ResourceSetups : \E r \in Res : SetupOk(r, c)}

ApplyInit ==
    /\ SqIdle
    /\ EvIdle
    /\ VfIdle
    /\ GraphIdle
    /\ CmpIdle
    /\ ApplyIdle
    /\ \E rebuild \in BOOLEAN :
         \E setup \in [Res -> ValidSetups] :
            /\ \A r \in Res : SetupOk(r, setup[r])
            /\ src_bp = [prefixed |-> TRUE,
                         resources |-> [r \in Res |->
                            IF InSource(setup[r].kind)
                            THEN [present |-> TRUE, depends_on |-> setup[r].depends_on,
                                  attrs |-> ClassAttrs(rebuild), version |-> ClassVersion]
                            ELSE NoClass]]
            /\ dest_bp = [prefixed |-> TRUE,
                          resources |-> [r \in Res |->
                            IF InDestination(setup[r].kind)
                            THEN [present |-> TRUE, depends_on |-> <<>>,
                                  attrs |-> ClassAttrs(rebuild), version |-> ClassVersion]
                            ELSE NoClass]]
            /\ db_resources = [r \in Res |->
                            IF InStore(setup[r].kind)
                            THEN [present |-> TRUE, values |-> setup[r].values,
                                  version |-> setup[r].stored]
                            ELSE NoRow]
    /\ db_blueprint = "destination"
    /\ diff_result = NoResult
    /\ last_call = NoCallYet
    /\ diff_unloadable = {}
    /\ diff_loads = 0
    /\ diff_result_of = 0

\* diff.diff(source=disk_blueprint, destination=db_blueprint): _result is
\* assigned when the call returns (line 437), not when it raises.
diff_call ==
    /\ ap_pc = "idle"
    /\ LET d == diff(src_bp, dest_bp, db_resources)
       IN  /\ src_bp' = d.source
           /\ dest_bp' = d.destination
           /\ diff_result' = IF d.outcome = "ok" THEN d.result ELSE diff_result
           /\ last_call' = [op |-> "diff", outcome |-> d.outcome]
           /\ diff_loads' = IF diff_loads = 0 THEN 1 ELSE diff_loads
           /\ diff_result_of' = IF d.outcome = "ok"
                                THEN (IF diff_loads = 0 THEN 1 ELSE diff_loads)
                                ELSE diff_result_of
    /\ diff_unloadable' = not_loadable(dest_bp, db_resources)
    /\ UNCHANGED <<db_resources, db_blueprint>>
    /\ UNCHANGED <<ev_vars, vf_vars, sq_vars, graph_vars, cmp_vars, ap_vars>>

\* The source blueprint loaded again from disk after the provider of the
\* resources in `upgraded` moved to the next major version.
reload_source(bp, upgraded) ==
    [prefixed |-> TRUE,
     resources |-> [r \in Res |->
        IF r \in upgraded /\ bp.resources[r].present
        THEN [bp.resources[r] EXCEPT !.version.major = MaxMajor]
        ELSE bp.resources[r]]]

\* The destination blueprint loaded again from the database.
reload_destination(bp) == [bp EXCEPT !.prefixed = TRUE]

\* diff.diff(source, destination) called again on the same StackzillaDiff with
\* blueprints loaded anew: _src_blueprint and _dest_blueprint are assigned at
\* entry (lines 322-323), _result when the call returns (line 437).
diff_call_reloaded ==
    /\ ap_pc = "idle"
    /\ diff_loads >= 1
    /\ diff_loads < MaxLoads
    /\ \E upgraded \in {{}} \cup {{r} : r \in Res} :
         LET d == diff(reload_source(src_bp, upgraded), reload_destination(dest_bp),
                       db_resources)
         IN  /\ src_bp' = d.source
             /\ dest_bp' = d.destination
             /\ diff_result' = IF d.outcome = "ok" THEN d.result ELSE diff_result
             /\ last_call' = [op |-> "diff", outcome |-> d.outcome]
             /\ diff_loads' = diff_loads + 1
             /\ diff_result_of' = IF d.outcome = "ok" THEN diff_loads + 1 ELSE diff_result_of
    /\ diff_unloadable' = not_loadable(dest_bp, db_resources)
    /\ UNCHANGED <<db_resources, db_blueprint>>
    /\ UNCHANGED <<ev_vars, vf_vars, sq_vars, graph_vars, cmp_vars, ap_vars>>

\* The `result` property and print(): NoDiffError while _result is None.
result_property(res) == IF res.computed THEN "ok" ELSE "NoDiffError"

\* diff.result is read, or diff.print(buffer) is called.
read_result ==
    /\ ap_pc = "idle"
    /\ \E op \in {"result", "print"} :
         last_call' = [op |-> op, outcome |-> result_property(diff_result)]
    /\ UNCHANGED <<src_bp, dest_bp, db_resources, db_blueprint, diff_result, diff_unloadable,
                 diff_loads, diff_result_of>>
    /\ UNCHANGED <<ev_vars, vf_vars, sq_vars, graph_vars, cmp_vars, ap_vars>>

\* apply() going on to persist the blueprint without the loop of lines 203-207.
after_removed_skipped(todo) == "persist"

\* Where apply() goes once the loop over the removed resources is left.
after_removed(todo) == IF todo = <<>> THEN "persist" ELSE "delete_removed"

\* apply(), lines 189-204: build and resolve the graph of the source blueprint.
apply_start ==
    /\ ap_pc = "idle"
    /\ diff_result.computed
    /\ LET r == resolve(apply_graph(src_bp.resources), FALSE)
           removed == removed_resources(src_bp.resources, dest_bp.resources)
       IN  IF r.status = "CircularDependency"
           THEN /\ ap_pc' = "done"
                /\ ap_outcome' = "CircularDependency"
                /\ UNCHANGED <<ap_phases, ap_todo>>
           ELSE /\ ap_pc' = after_removed(removed)
                /\ ap_phases' = r.phases
                /\ ap_todo' = removed
                /\ UNCHANGED ap_outcome
    /\ UNCHANGED <<ap_phase, ap_errors, ap_modified_attrs, ap_unhandled, ap_log>>
    /\ last_call' = [op |-> "apply", outcome |-> "started"]
    /\ UNCHANGED <<src_bp, dest_bp, db_resources, db_blueprint, diff_result, diff_unloadable,
                 diff_loads, diff_result_of>>
    /\ UNCHANGED <<ev_vars, vf_vars, sq_vars, graph_vars, cmp_vars>>

\* apply(), lines 203-207: one resource of the destination that is not in the
\* source is deleted and removed from the store; a ResourceDeleteFailure of its
\* delete() leaves apply().
apply_delete_removed ==
    /\ ap_pc = "delete_removed"
    /\ ap_todo /= <<>>
    /\ ap_log' = Append(ap_log, LogEntry("delete", Head(ap_todo)))
    /\ \E ok \in BOOLEAN :
         IF ok
         THEN /\ db_resources' = [db_resources EXCEPT ![Head(ap_todo)] = NoRow]
              /\ ap_todo' = Tail(ap_todo)
              /\ ap_pc' = after_removed(Tail(ap_todo))
              /\ UNCHANGED ap_outcome
         ELSE /\ ap_pc' = "done"
              /\ ap_outcome' = "ResourceDeleteFailure"
              /\ UNCHANGED <<db_resources, ap_todo>>
    /\ UNCHANGED <<ap_phases, ap_phase, ap_errors, ap_modified_attrs, ap_unhandled>>
    /\ UNCHANGED <<src_bp, dest_bp, db_blueprint, diff_result, last_call, diff_unloadable,
                 diff_loads, diff_result_of>>
    /\ UNCHANGED <<ev_vars, vf_vars, sq_vars, graph_vars, cmp_vars>>

\* apply() without lines 209-217: the stored packages and modules are left alone.
apply_persist_blueprint_skipped ==
    /\ ap_pc = "persist"
    /\ ap_log' = Append(ap_log, LogEntry("persist_blueprint", None))
    /\ IF ap_phases = <<>>
       THEN /\ ap_pc' = "done"
            /\ ap_outcome' = "ok"
            /\ UNCHANGED <<ap_phase, ap_todo>>
       ELSE /\ ap_pc' = "phase"
            /\ ap_phase' = 1
            /\ ap_todo' = ap_phases[1]
            /\ UNCHANGED ap_outcome
    /\ UNCHANGED <<ap_phases, ap_errors, ap_modified_attrs, ap_unhandled>>
    /\ UNCHANGED bp_vars
    /\ UNCHANGED <<ev_vars, vf_vars, sq_vars, graph_vars, cmp_vars>>

\* apply(), lines 209-221: the stored packages and modules are replaced by the
\* source's, then the walk over the phases starts.
apply_persist_blueprint ==
    /\ ap_pc = "persist"
    /\ db_blueprint' = "source"
    /\ ap_log' = Append(ap_log, LogEntry("persist_blueprint", None))
    /\ IF ap_phases = <<>>
       THEN /\ ap_pc' = "done"
            /\ ap_outcome' = "ok"
            /\ UNCHANGED <<ap_phase, ap_todo>>
       ELSE /\ ap_pc' = "phase"
            /\ ap_phase' = 1
            /\ ap_todo' = ap_phases[1]
            /\ UNCHANGED ap_outcome
    /\ UNCHANGED <<ap_phases, ap_errors, ap_modified_attrs, ap_unhandled>>
    /\ UNCHANGED <<src_bp, dest_bp, db_resources, diff_result, last_call, diff_unloadable,
                 diff_loads, diff_result_of>>
    /\ UNCHANGED <<ev_vars, vf_vars, sq_vars, graph_vars, cmp_vars>>

\* The resource diff that line 231 looks up for the next resource of the phase.
current_diff == diff_result.resource_diffs[Head(ap_todo)]

in_phase ==
    /\ ap_pc = "phase"
    /\ ap_todo /= <<>>

\* What a step that stays in apply() leaves alone.
apply_step_frame ==
    /\ UNCHANGED <<ap_phases, ap_phase>>
    /\ UNCHANGED <<src_bp, dest_bp, db_blueprint, diff_result, last_call, diff_unloadable,
                 diff_loads, diff_result_of>>
    /\ UNCHANGED <<ev_vars, vf_vars, sq_vars, graph_vars, cmp_vars>>

\* Lines 299-300: a SAME resource is skipped.
apply_resource_same ==
    /\ in_phase
    /\ current_diff.result = "SAME"
    /\ ap_log' = Append(ap_log, LogEntry("same", Head(ap_todo)))
    /\ ap_todo' = Tail(ap_todo)
    /\ ap_modified_attrs' = NoModified
    /\ UNCHANGED <<ap_pc, ap_errors, ap_outcome, ap_unhandled, db_resources>>
    /\ apply_step_frame

\* The NEW branch without its try/except: a ResourceCreateFailure leaves apply().
apply_resource_new_unguarded ==
    /\ in_phase
    /\ current_diff.result = "NEW"
    /\ ap_log' = Append(ap_log, LogEntry("create", Head(ap_todo)))
    /\ \E ok \in BOOLEAN :
         IF ok
         THEN /\ db_resources' = [db_resources EXCEPT ![Head(ap_todo)] =
                    create(src_bp.resources[Head(ap_todo)])]
              /\ ap_todo' = Tail(ap_todo)
              /\ UNCHANGED <<ap_errors, ap_pc, ap_outcome>>
         ELSE /\ ap_errors' = Append(ap_errors,
                    ApplyError(Head(ap_todo), None, "ResourceCreateFailure"))
              /\ ap_pc' = "done"
              /\ ap_outcome' = "ResourceCreateFailure"
              /\ UNCHANGED <<db_resources, ap_todo>>
    /\ ap_modified_attrs' = NoModified
    /\ UNCHANGED ap_unhandled
    /\ apply_step_frame

\* Lines 294-298: a NEW resource is created; a ResourceCreateFailure is recorded.
apply_resource_new ==
    /\ in_phase
    /\ current_diff.result = "NEW"
    /\ ap_log' = Append(ap_log, LogEntry("create", Head(ap_todo)))
    /\ \E ok \in BOOLEAN :
         IF ok
         THEN /\ db_resources' = [db_resources EXCEPT ![Head(ap_todo)] =
                    create(src_bp.resources[Head(ap_todo)])]
              /\ UNCHANGED ap_errors
         ELSE /\ ap_errors' = Append(ap_errors,
                    ApplyError(Head(ap_todo), None, "ResourceCreateFailure"))
              /\ UNCHANGED db_resources
    /\ ap_todo' = Tail(ap_todo)
    /\ ap_modified_attrs' = NoModified
    /\ UNCHANGED <<ap_pc, ap_outcome, ap_unhandled>>
    /\ apply_step_frame

\* The REBUILD_REQUIRED branch with its two calls exchanged: the new resource is
\* created, then the old one is deleted.
apply_resource_rebuild_create_first ==
    /\ in_phase
    /\ current_diff.result = "REBUILD_REQUIRED"
    /\ \E delete_ok \in BOOLEAN : \E create_ok \in BOOLEAN :
         /\ ap_log' = ap_log \o <<LogEntry("create", Head(ap_todo)),
                                  LogEntry("delete", Head(ap_todo))>>
         /\ ap_errors' = IF create_ok THEN ap_errors
                         ELSE Append(ap_errors,
                                ApplyError(Head(ap_todo), None, "ResourceCreateFailure"))
         /\ IF delete_ok
            THEN /\ db_resources' = [db_resources EXCEPT ![Head(ap_todo)] = NoRow]
                 /\ ap_todo' = Tail(ap_todo)
                 /\ UNCHANGED <<ap_pc, ap_outcome>>
            ELSE /\ ap_pc' = "done"
                 /\ ap_outcome' = "ResourceDeleteFailure"
                 /\ UNCHANGED <<ap_todo, db_resources>>
    /\ ap_modified_attrs' = NoModified
    /\ UNCHANGED ap_unhandled
    /\ apply_step_frame

\* Lines 283-288: the old resource of a REBUILD_REQUIRED diff is deleted, then the
\* new one is created.  The delete is not guarded: its ResourceDeleteFailure
\* leaves apply(); a ResourceCreateFailure of the create is recorded.
apply_resource_rebuild ==
    /\ in_phase
    /\ current_diff.result = "REBUILD_REQUIRED"
    /\ \E delete_ok \in BOOLEAN : \E create_ok \in BOOLEAN :
         IF ~delete_ok
         THEN /\ ap_log' = Append(ap_log, LogEntry("delete", Head(ap_todo)))
              /\ ap_pc' = "done"
              /\ ap_outcome' = "ResourceDeleteFailure"
              /\ UNCHANGED <<ap_todo, ap_errors, db_resources>>
         ELSE /\ ap_log' = ap_log \o <<LogEntry("delete", Head(ap_todo)),
                                       LogEntry("create", Head(ap_todo))>>
              /\ ap_todo' = Tail(ap_todo)
              /\ UNCHANGED <<ap_pc, ap_outcome>>
              /\ IF create_ok
                 THEN /\ db_resources' = [db_resources EXCEPT ![Head(ap_todo)] =
                            create(src_bp.resources[Head(ap_todo)])]
                      /\ UNCHANGED ap_errors
                 ELSE /\ db_resources' = [db_resources EXCEPT ![Head(ap_todo)] = NoRow]
                      /\ ap_errors' = Append(ap_errors,
                            ApplyError(Head(ap_todo), None, "ResourceCreateFailure"))
    /\ ap_modified_attrs' = NoModified
    /\ UNCHANGED ap_unhandled
    /\ apply_step_frame

\* Lines 233-282: the hooks of a CONFLICT resource run for every attribute diff,
\* then each attribute is reported as an error, kept as unhandled or written to
\* the store; an unhandled attribute raises UnhandledAttributeModifications.
apply_resource_conflict ==
    /\ in_phase
    /\ current_diff.result = "CONFLICT"
    /\ \E hooks \in [AttrNames -> HookOutcomes] : \E claimed \in SUBSET AttrNames :
         LET r == Head(ap_todo)
             names == diff_attr_names(current_diff.attribute_diffs)
             modified_attrs == [n \in AttrNames |-> AttributeModified(hooks[n], n \in claimed)]
             unhandled_attributes == {n \in Range(names) : attr_is_unhandled(modified_attrs[n])}
         IN  /\ ap_log' = Append(ap_log, LogEntry("modify", r))
             /\ ap_modified_attrs' = [resource |-> r, attrs |-> modified_attrs]
             /\ ap_errors' = ap_errors \o attribute_errors(r, modified_attrs, names)
             /\ db_resources' = [db_resources EXCEPT ![r] =
                    persist_handled(@, current_diff.attribute_diffs, modified_attrs, names)]
             /\ IF unhandled_attributes /= {}
                THEN /\ ap_pc' = "done"
                     /\ ap_outcome' = "UnhandledAttributeModifications"
                     /\ ap_unhandled' = {<<r, n>> : n \in unhandled_attributes}
                     /\ UNCHANGED ap_todo
                ELSE /\ ap_todo' = Tail(ap_todo)
                     /\ UNCHANGED <<ap_pc, ap_outcome, ap_unhandled>>
    /\ apply_step_frame

\* Lines 304-306: the error check at the end of a phase.
apply_end_phase ==
    /\ ap_pc = "phase"
    /\ ap_todo = <<>>
    /\ LET e == end_of_phase(ap_errors, ap_phases, ap_phase)
       IN  /\ ap_pc' = e.pc
           /\ ap_outcome' = e.outcome
           /\ ap_phase' = e.phase
           /\ ap_todo' = e.todo
    /\ ap_modified_attrs' = NoModified
    /\ UNCHANGED <<ap_phases, ap_errors, ap_unhandled, ap_log>>
    /\ UNCHANGED bp_vars
    /\ UNCHANGED <<ev_vars, vf_vars, sq_vars, graph_vars, cmp_vars>>

ApplyNext ==
    \/ diff_call
    \/ read_result
    \/ apply_start
    \/ apply_delete_removed
    \/ apply_persist_blueprint
    \/ apply_resource_same
    \/ apply_resource_new
    \/ apply_resource_rebuild
    \/ apply_resource_conflict
    \/ apply_end_phase

SpecApply == ApplyInit /\ [][ApplyNext]_vars

(***************************************************************************)
(* Properties of diff() and apply().                                       *)
(***************************************************************************)
\* The resource is in one of the phases apply() walks.
InPhases(r) == \E k \in 1..Len(ap_phases) : r \in Range(ap_phases[k])

\* Some operation of apply() was invoked on the resource.
Attempted(r) == \E i \in 1..Len(ap_log) : ap_log[i].resource = r

\* Some operation was invoked on the resource before the i-th one of the log.
AttemptedBefore(r, i) == \E j \in 1..(i - 1) : ap_log[j].resource = r

\* C4: apply() walks the phases in order: an operation on a resource of a phase
\* is invoked only once every resource of the earlier phases has been visited
\* and their end-of-phase error checks found no error, so a resource is visited
\* only after each resource it depends on was visited without a recorded error.
C4_PhaseSequencing ==
    \A i \in 1..Len(ap_log) :
        LET r == ap_log[i].resource
        IN  InPhases(r) =>
            LET k == PhaseOf(ap_phases, r)
            IN  /\ k <= ap_phase
                /\ \A q \in PhaseObjs(ap_phases, k - 1) : AttemptedBefore(q, i)
                /\ \A j \in 1..Len(ap_errors) :
                     /\ InPhases(ap_errors[j].resource)
                     /\ PhaseOf(ap_phases, ap_errors[j].resource) >= k
                /\ \A d \in Range(src_bp.resources[r].depends_on) :
                     /\ InPhases(d)
                     /\ PhaseOf(ap_phases, d) < k
                     /\ AttemptedBefore(d, i)

\* A chain of three new resources is created, one phase after the other.
C4_Witness ==
    /\ ap_outcome = "ok"
    /\ Len(ap_phases) = 3
    /\ \A r \in Res :
         /\ InPhases(r)
         /\ \E i \in 1..Len(ap_log) : ap_log[i] = LogEntry("create", r)
    /\ \E r \in Res : src_bp.resources[r].depends_on /= <<>> /\ PhaseOf(ap_phases, r) = 3

\* The positions of `errors` that hold a create failure.
CreateFailures ==
    {j \in 1..Len(ap_errors) : ap_errors[j].reason = "ResourceCreateFailure"}

\* No operation was invoked on a resource of a phase after phase k.
LaterPhasesUntouched(k) ==
    \A q \in PhaseObjs(ap_phases, Len(ap_phases)) \ PhaseObjs(ap_phases, k) : ~Attempted(q)

Unchanged(r) ==
    /\ src_bp.resources[r].present
    /\ dest_bp.resources[r].present
    /\ src_bp.resources[r].attrs = dest_bp.resources[r].attrs
    /\ db_resources[r].present
    /\ \A n \in AttrNames :
         src_bp.resources[r].attrs[n].declared
         => db_resources[r].values[n]
              = get_attribute_value(new_instance(src_bp.resources[r]), n)

\* C7: diff() of a blueprint against an unchanged stored copy of itself reports
\* SAME for every resource, with no attribute diffs, and SAME overall.
C7_DiffOfUnchangedIsSame ==
    (diff_result.computed /\ ap_pc = "idle")
    => /\ \A r \in Res :
            Unchanged(r)
            => diff_result.resource_diffs[r] =
                 StackzillaResourceDiff(TRUE, TRUE, "SAME", NoAttrDiffs)
       /\ (\A r \in Res :
              (src_bp.resources[r].present \/ dest_bp.resources[r].present) => Unchanged(r))
            => diff_result.result = "SAME"

\* Three unchanged resources.
C7_Witness ==
    /\ diff_result.computed
    /\ ap_pc = "idle"
    /\ diff_result.result = "SAME"
    /\ \A r \in Res :
         /\ Unchanged(r)
         /\ diff_result.resource_diffs[r].result = "SAME"

\* The resource diff of a resource that is only in the source: NEW, every
\* declared attribute recorded NEW with the source's value and no destination
\* attribute.
NewResourceDiff(cls) ==
    [result |-> "NEW", src_resource |-> TRUE, dest_resource |-> FALSE,
     attribute_diffs |->
        [n \in AttrNames |->
            IF cls.attrs[n].declared
            THEN [result |-> "NEW", src_attribute |-> TRUE, dest_attribute |-> FALSE,
                  src_value |-> get_attribute_value(cls.attrs, n), dest_value |-> None]
            ELSE NoDiff]]

\* The step is a diff() on two blueprints as they were loaded, and it returns.
FirstDiff == src_bp.prefixed /\ dest_bp.prefixed /\ diff_result'.computed

\* C11: diff() of two loaded blueprints gives a resource that is only in the
\* source a NEW diff with every attribute NEW and no destination attribute, a
\* resource that is only in the destination (and loadable) a DELETED diff with
\* every attribute DELETED and no source attribute, and one resource diff to
\* each path of the source or of the loadable destination, none to any other.
C11_NewAndDeletedResources ==
    [][FirstDiff =>
        \A r \in Res :
            LET s == src_bp.resources[r].present
                d == dest_bp.resources[r].present /\ db_resources[r].present
                rd == diff_result'.resource_diffs[r]
            IN  /\ (s /\ ~d) => rd = NewResourceDiff(src_bp.resources[r])
                /\ (d /\ ~s)
                     => /\ rd.result = "DELETED"
                        /\ ~rd.src_resource /\ rd.dest_resource
                        /\ \A n \in AttrNames :
                             IF dest_bp.resources[r].attrs[n].declared
                             THEN /\ rd.attribute_diffs[n].result = "DELETED"
                                  /\ ~rd.attribute_diffs[n].src_attribute
                                  /\ rd.attribute_diffs[n].dest_attribute
                             ELSE rd.attribute_diffs[n] = NoDiff
                /\ (s \/ d) <=> (rd /= NoResourceDiff)]_vars

\* One resource is new, one is gone from the source, one is unchanged.
C11_Witness ==
    /\ diff_result.computed
    /\ ap_pc = "idle"
    /\ \E a, b, c \in Res :
         /\ diff_result.resource_diffs[a].result = "NEW"
         /\ diff_result.resource_diffs[a].attribute_diffs[1].result = "NEW"
         /\ diff_result.resource_diffs[b].result = "DELETED"
         /\ diff_result.resource_diffs[b].attribute_diffs[1].result = "DELETED"
         /\ diff_result.resource_diffs[c].result = "SAME"

\* C13: after a successful diff() the overall result is SAME when every
\* resource diff is SAME and CONFLICT otherwise, and never any other value.
C13_OverallResultSameOrConflict ==
    diff_result.computed
    => diff_result.result =
         IF \A r \in Res : diff_result.resource_diffs[r].result \in {"none", "SAME"}
         THEN "SAME" ELSE "CONFLICT"

\* A resource that is on both sides and loadable, stored under another major
\* version than the source class has.
MajorMismatch(r) ==
    /\ src_bp.resources[r].present
    /\ dest_bp.resources[r].present
    /\ db_resources[r].present
    /\ src_bp.resources[r].version.major /= db_resources[r].version.major

\* C14: diff() of two loaded blueprints raises VersionIncompatibility exactly
\* when a resource on both sides is stored under another major version than
\* the source's (another minor number alone never raises), and a call that
\* raises leaves _result as it was; `result` and print() raise NoDiffError
\* until a diff() call has returned.
C14_VersionIncompatibility ==
    [][/\ (diff_call /\ src_bp.prefixed /\ dest_bp.prefixed)
            => /\ (last_call'.outcome = "VersionIncompatibility")
                    <=> (\E r \in Res : MajorMismatch(r))
               /\ last_call'.outcome = "VersionIncompatibility"
                    => diff_result' = diff_result
       /\ (~diff_result.computed /\ diff_result'.computed)
            => last_call' = [op |-> "diff", outcome |-> "ok"]
       /\ (last_call' /= last_call /\ last_call'.op \in {"result", "print"})
            => /\ diff_result' = diff_result
               /\ ~diff_result.computed => last_call'.outcome = "NoDiffError"]_vars

\* diff() has raised VersionIncompatibility, then print() raised NoDiffError.
C14_Witness ==
    /\ last_call = [op |-> "print", outcome |-> "NoDiffError"]
    /\ ~src_bp.prefixed
    /\ \E r \in Res : MajorMismatch(r)
    /\ \E r \in Res : src_bp.resources[r].present /\ ~MajorMismatch(r)

\* C15: a destination resource whose stored values cannot be loaded is dropped
\* by diff(): it gets no DELETED resource diff, a source resource of the same
\* path is classified NEW and not compared, and apply() invokes no delete on it.
C15_UnloadableDestinationDropped ==
    \A r \in diff_unloadable :
        /\ ~dest_bp.resources[r].present
        /\ diff_result.computed
             => /\ diff_result.resource_diffs[r].result \in {"none", "NEW"}
                /\ src_bp.resources[r].present
                     => diff_result.resource_diffs[r] = NewResourceDiff(src_bp.resources[r])
                /\ ~src_bp.resources[r].present
                     => diff_result.resource_diffs[r] = NoResourceDiff
        /\ \A i \in 1..Len(ap_log) : ap_log[i] /= LogEntry("delete", r)

\* One unloadable resource is also in the source and is created, another is in
\* the destination only; a third, stored, resource is deleted by apply().
C15_Witness ==
    /\ ap_outcome = "ok"
    /\ \E a, b, c \in Res :
         /\ a \in diff_unloadable /\ src_bp.resources[a].present
         /\ \E i \in 1..Len(ap_log) : ap_log[i] = LogEntry("create", a)
         /\ b \in diff_unloadable /\ ~src_bp.resources[b].present
         /\ c \notin diff_unloadable
         /\ \E i \in 1..Len(ap_log) : ap_log[i] = LogEntry("delete", c)

\* C16: for a CONFLICT resource, each changed attribute that was handled and
\* whose hook did not raise is in the store with the source's value, and each
\* attribute whose hook raised AttributeModifyFailure has an entry in `errors`
\* and keeps its stored value, whatever happened to the other attributes.
C16_HandledPersistedErrorsReported ==
    ap_modified_attrs /= NoModified
    => LET r == ap_modified_attrs.resource
           d == diff_result.resource_diffs[r]
       IN  \A n \in Range(diff_attr_names(d.attribute_diffs)) :
             /\ d.attribute_diffs[n].src_value /= d.attribute_diffs[n].dest_value
             /\ (ap_modified_attrs.attrs[n].handled /\ ~ap_modified_attrs.attrs[n].error)
                  => /\ db_resources[r].values[n] = d.attribute_diffs[n].src_value
                     /\ \A j \in 1..Len(ap_errors) :
                          ap_errors[j] /= ApplyError(r, n, "AttributeModifyFailure")
             /\ ap_modified_attrs.attrs[n].error
                  => /\ db_resources[r].values[n] = d.attribute_diffs[n].dest_value
                     /\ \E j \in 1..Len(ap_errors) :
                          ap_errors[j] = ApplyError(r, n, "AttributeModifyFailure")

\* Of two changed attributes the first is handled and written, the hook of the
\* second raised; apply() goes on with the phase.
C16_Witness ==
    /\ ap_modified_attrs /= NoModified
    /\ ap_pc = "phase"
    /\ LET r == ap_modified_attrs.resource
           d == diff_result.resource_diffs[r]
       IN  /\ d.attribute_diffs[1] /= NoDiff
           /\ d.attribute_diffs[MaxAttrs] /= NoDiff
           /\ ap_modified_attrs.attrs[1].handled /\ ~ap_modified_attrs.attrs[1].error
           /\ ap_modified_attrs.attrs[MaxAttrs].error
           /\ db_resources[r].values[1] = d.attribute_diffs[1].src_value
           /\ db_resources[r].values[MaxAttrs] = d.attribute_diffs[MaxAttrs].dest_value

\* C17: for a REBUILD_REQUIRED resource apply() invokes delete on the old
\* resource first and create on the new one only after that delete returned; a
\* failure of the create is appended to `errors`, raises nothing at that point,
\* and apply() goes on with the next resource of the phase.
C17_RebuildDeletesThenCreates ==
    [][(in_phase /\ current_diff.result = "REBUILD_REQUIRED" /\ ap_log' /= ap_log)
        => LET r == Head(ap_todo)
               created == ap_log' = ap_log \o <<LogEntry("delete", r), LogEntry("create", r)>>
           IN  /\ SubSeq(ap_log', 1, Len(ap_log) + 1) = Append(ap_log, LogEntry("delete", r))
               /\ created \/ (ap_log' = Append(ap_log, LogEntry("delete", r))
                              /\ ap_outcome' = "ResourceDeleteFailure")
               /\ created
                    => /\ ap_pc' = "phase"
                       /\ ap_outcome' = "none"
                       /\ ap_todo' = Tail(ap_todo)
                       /\ ap_phase' = ap_phase
                       /\ \/ /\ ap_errors' = ap_errors
                             /\ db_resources'[r] = create_in_db(src_bp.resources[r])
                          \/ /\ ap_errors' = Append(ap_errors,
                                    ApplyError(r, None, "ResourceCreateFailure"))
                             /\ ~db_resources'[r].present]_vars

\* The create of a rebuilt resource failed and the next resource of the same
\* phase was visited after it.
C17_Witness ==
    /\ Len(ap_errors) = 1
    /\ ap_errors[1].reason = "ResourceCreateFailure"
    /\ LET r == ap_errors[1].resource
       IN  /\ diff_result.resource_diffs[r].result = "REBUILD_REQUIRED"
           /\ \E i \in 1..(Len(ap_log) - 2) :
                /\ ap_log[i] = LogEntry("delete", r)
                /\ ap_log[i + 1] = LogEntry("create", r)
                /\ ap_log[i + 2].resource \in Range(ap_phases[ap_phase]) \ {r}

\* C18: a ResourceDeleteFailure raised while apply() deletes a removed resource
\* or the old resource of a rebuild is recorded in `errors` and surfaces as
\* ApplyErrors: apply() never ends with the delete's own exception.
C18_DeleteFailureAccumulated ==
    ap_pc = "done"
    => ap_outcome \in {"ok", "CircularDependency", "ApplyErrors",
                       "UnhandledAttributeModifications"}

\* C19: when apply() ends with ApplyErrors or UnhandledAttributeModifications
\* the store holds the packages and modules of the source blueprint, and no step
\* of apply(), the failing one included, touches the row of a resource other
\* than the one it is visiting: what was created, modified or deleted stays.
C19_BlueprintPersistedNoRollback ==
    [][/\ ap_outcome' \in {"ApplyErrors", "UnhandledAttributeModifications"}
            => db_blueprint' = "source"
       /\ db_blueprint = "source" => db_blueprint' = "source"
       /\ \A r \in Res :
            db_resources'[r] /= db_resources[r]
            => /\ ap_pc \in {"delete_removed", "phase"}
               /\ ap_todo /= <<>>
               /\ r = Head(ap_todo)
       /\ (ap_pc = "phase" /\ ap_pc' = "done") => \A i \in 1..Len(ap_log) : ap_log'[i] = ap_log[i]]_vars

\* apply() ended with ApplyErrors after it deleted a removed resource and
\* created a new one: both are as applied, the store holds the source blueprint.
C19_Witness ==
    /\ ap_outcome = "ApplyErrors"
    /\ db_blueprint = "source"
    /\ \E a, b \in Res :
         /\ ap_log[1] = LogEntry("delete", a)
         /\ ~db_resources[a].present
         /\ \E i \in 1..Len(ap_log) : ap_log[i] = LogEntry("create", b)
         /\ db_resources[b] = create_in_db(src_bp.resources[b])
         /\ \A j \in 1..Len(ap_errors) : ap_errors[j].resource /= b

(***************************************************************************)
(* database/sqlite.py: threads calling into one open StackzillaSQLiteDB    *)
(***************************************************************************)
\* One statement run on the connection: whether it writes, whether the caller
\* fetches from its cursor, whether a commit follows it.
Query(what, path, name, write, fetch, commit) ==
    [what |-> what, path |-> path, name |-> name,
     write |-> write, fetch |-> fetch, commit |-> commit]

\* A statement on a table whose rows are not followed.
Statement(write, fetch, commit) == Query("other", None, None, write, fetch, commit)

\* set_metadata: one execute() of a REPLACE, committed.
set_metadata == <<<<Statement(TRUE, FALSE, TRUE)>>>>

\* check_metadata: one execute() of a SELECT with the default commit=True, and a
\* fetchone() in the body of the `with`.
check_metadata == <<<<Statement(FALSE, TRUE, TRUE)>>>>

\* _resource_id_from_path: one execute(commit=False) of a SELECT and a fetchone().
resource_id_from_path == <<<<Statement(FALSE, TRUE, FALSE)>>>>

\* delete_resource: _resource_id_from_path(), then one execute() of a DELETE.
delete_resource == resource_id_from_path \o <<<<Statement(TRUE, FALSE, TRUE)>>>>

\* create_resource: under one lock_db(), the INSERT of the resource row and one
\* INSERT per attribute, each followed by a commit.
create_resource(n_attributes) ==
    <<[i \in 1..(1 + n_attributes) |-> Statement(TRUE, FALSE, TRUE)]>>

\* _resource_from_path / _resource_id_from_path of a followed path: one
\* execute(commit=False) of a SELECT and a fetchone(); ResourceNotFound if there is no row.
resource_from_path(path) ==
    <<<<Query("select_resource", path, None, FALSE, TRUE, FALSE)>>>>

\* get_attribute: _resource_id_from_path(), then one execute(commit=False) of the SELECT
\* of the attribute row and a fetchone(); AttributeNotFound if there is no row.
get_attribute(path, name) ==
    resource_from_path(path)
        \o <<<<Query("select_attribute", path, name, FALSE, TRUE, FALSE)>>>>

\* load_from_db: get_attribute for each declared attribute, then get_resource_version.
RECURSIVE load_attributes(_, _)
load_attributes(path, name) ==
    IF name > StoreAttrs THEN resource_from_path(path)
    ELSE get_attribute(path, name) \o load_attributes(path, name + 1)

\* get_resource: _resource_from_path(), then obj.load_from_db().
get_resource(path) == resource_from_path(path) \o load_attributes(path, 1)

\* get_all_resources, pass 1: one execute() of SELECT * FROM StackzillaResource with a
\* fetchall() in the body of the `with`, committed.  Pass 2 follows from what it fetched.
get_all_resources == <<<<Query("select_all", None, None, FALSE, TRUE, TRUE)>>>>

\* create_resource splitting its INSERTs over one locked section each.
create_resource_rows_unlocked(path) ==
    <<<<Query("insert_resource", path, None, TRUE, FALSE, TRUE)>>>>
        \o [i \in 1..StoreAttrs |-> <<Query("insert_attribute", path, i, TRUE, FALSE, TRUE)>>]

\* create_resource of a followed path: under one lock_db(), the INSERT of the resource
\* row and one INSERT per attribute, each followed by a commit.
create_resource_rows(path) ==
    <<<<Query("insert_resource", path, None, TRUE, FALSE, TRUE)>>
        \o [i \in 1..StoreAttrs |-> Query("insert_attribute", path, i, TRUE, FALSE, TRUE)]>>

StoreCalls ==
    {StoreCall("set_metadata", None, set_metadata),
     StoreCall("check_metadata", None, check_metadata),
     StoreCall("delete_resource", None, delete_resource)}
    \cup {StoreCall("create_resource", None, create_resource(n)) : n \in 0..MaxAttrs}

\* The statement thread t is at: the first one of its first locked section.
statement(t) == Head(Head(sq_call[t].sections))

\* A Lock.acquire() that does not wait for the holder.
lock_acquire_unheld(t) ==
    sq_lock' = t

\* Lock.acquire(): blocks until the lock is free, then takes it.
lock_acquire(t) ==
    /\ sq_lock = None
    /\ sq_lock' = t

\* Thread t enters a method of the store.
store_call(t) ==
    /\ sq_pc[t] = "idle"
    /\ \E call \in StoreCalls : sq_call' = [sq_call EXCEPT ![t] = call]
    /\ sq_pc' = [sq_pc EXCEPT ![t] = "acquire"]
    /\ UNCHANGED <<sq_lock, sq_on_connection, sq_uncommitted, sq_table, sq_faults>>
    /\ UNCHANGED <<ev_vars, vf_vars, graph_vars, cmp_vars, bp_vars, ap_vars>>

\* execute() line 80, lock_db() line 62.
acquire(t) ==
    /\ sq_pc[t] = "acquire"
    /\ lock_acquire(t)
    /\ sq_pc' = [sq_pc EXCEPT ![t] = "stmt"]
    /\ UNCHANGED <<sq_call, sq_on_connection, sq_uncommitted, sq_table, sq_faults>>
    /\ UNCHANGED <<ev_vars, vf_vars, graph_vars, cmp_vars, bp_vars, ap_vars>>

\* What follows a statement that is over, its fetch and commit included: the
\* next statement of the locked section, or the release of the lock.
after_statement(t) ==
    IF Len(Head(sq_call[t].sections)) > 1 THEN "stmt" ELSE "release"

next_statement(t) ==
    [sq_call EXCEPT ![t].sections = <<Tail(Head(@))>> \o Tail(@)]

\* The call is over once the lock is released: it raises `exception`.
abandon(t, exception) ==
    [sq_call EXCEPT ![t].sections = <<<<>>>>, ![t].raised = exception]

\* The tables after the statement has run.
rows_after(stmt) ==
    CASE stmt.what = "insert_resource" ->
             [sq_table EXCEPT ![stmt.path].row = TRUE]
      [] stmt.what = "insert_attribute" ->
             [sq_table EXCEPT ![stmt.path].attributes = @ + 1]
      [] OTHER -> sq_table

\* What the method raises after the `with` when the row it fetched is None.
not_found(t, stmt) ==
    CASE stmt.what = "select_resource" /\ ~sq_table[stmt.path].row -> {"ResourceNotFound"}
      [] stmt.what = "select_resource" -> {"none"}
      [] stmt.what = "select_attribute" /\ sq_table[stmt.path].attributes < stmt.name ->
             {"AttributeNotFound"}
      [] stmt.what = "select_attribute" -> {"none"}
      [] stmt.what = "other" /\ Len(sq_call[t].sections) > 1 ->
             {"none", "ResourceNotFound"}
      [] OTHER -> {"none"}

\* The paths fetchall() returns for SELECT * FROM StackzillaResource.
RECURSIVE fetched_paths(_)
fetched_paths(p) ==
    IF p > MaxPaths THEN <<>>
    ELSE (IF sq_table[p].row THEN <<p>> ELSE <<>>) \o fetched_paths(p + 1)

\* get_all_resources, pass 2: get_resource for each path pass 1 fetched.
RECURSIVE get_resources(_)
get_resources(paths) ==
    IF paths = <<>> THEN <<>>
    ELSE get_resource(Head(paths)) \o get_resources(Tail(paths))

\* The call once the body of its `with` has fetched from the cursor.
fetched(call, stmt, exception) ==
    IF stmt.what = "select_all"
    THEN [call EXCEPT !.paths = fetched_paths(1),
                      !.sections = <<Head(@)>> \o get_resources(fetched_paths(1))]
    ELSE [call EXCEPT !.raised = exception]

\* connection.execute() / _cursor.execute() is entered, unless the store is found
\* closed: the `connection` property raises DatabaseNotOpen inside the try of execute()
\* (lines 84-86, 101-106), and in create_resource _cursor is None inside lock_db() (line 308).
execute_begin(t) ==
    /\ sq_pc[t] = "stmt"
    /\ \E open \in BOOLEAN :
         IF open
         THEN /\ sq_on_connection' = sq_on_connection \cup {t}
              /\ sq_pc' = [sq_pc EXCEPT ![t] = "in_stmt"]
              /\ UNCHANGED <<sq_call, sq_faults>>
         ELSE /\ sq_pc' = [sq_pc EXCEPT ![t] = "release"]
              /\ sq_call' = abandon(t, "DatabaseNotOpen")
              /\ sq_faults' = TRUE
              /\ UNCHANGED sq_on_connection
    /\ UNCHANGED <<sq_lock, sq_uncommitted, sq_table>>
    /\ UNCHANGED <<ev_vars, vf_vars, graph_vars, cmp_vars, bp_vars, ap_vars>>

\* connection.execute() / _cursor.execute() returns or raises.
execute_end(t) ==
    /\ sq_pc[t] = "in_stmt"
    /\ sq_on_connection' = sq_on_connection \ {t}
    /\ \E raised \in BOOLEAN :
         IF raised
         THEN /\ sq_pc' = [sq_pc EXCEPT ![t] = "release"]
              /\ sq_call' = abandon(t, "sqlite3.Error")
              /\ sq_faults' = TRUE
              /\ UNCHANGED <<sq_uncommitted, sq_table>>
         ELSE /\ sq_uncommitted' = (sq_uncommitted \/ statement(t).write)
              /\ sq_table' = rows_after(statement(t))
              /\ UNCHANGED sq_faults
              /\ IF statement(t).fetch
                 THEN /\ sq_pc' = [sq_pc EXCEPT ![t] = "fetch"]
                      /\ UNCHANGED sq_call
                 ELSE IF statement(t).commit
                 THEN /\ sq_pc' = [sq_pc EXCEPT ![t] = "commit"]
                      /\ UNCHANGED sq_call
                 ELSE /\ sq_pc' = [sq_pc EXCEPT ![t] = after_statement(t)]
                      /\ sq_call' = next_statement(t)
    /\ UNCHANGED sq_lock
    /\ UNCHANGED <<ev_vars, vf_vars, graph_vars, cmp_vars, bp_vars, ap_vars>>

\* The body of `with self.execute(...) as cursor`: cursor.fetchone() / fetchall().
fetch_begin(t) ==
    /\ sq_pc[t] = "fetch"
    /\ sq_on_connection' = sq_on_connection \cup {t}
    /\ sq_pc' = [sq_pc EXCEPT ![t] = "in_fetch"]
    /\ UNCHANGED <<sq_lock, sq_call, sq_uncommitted, sq_table, sq_faults>>
    /\ UNCHANGED <<ev_vars, vf_vars, graph_vars, cmp_vars, bp_vars, ap_vars>>

\* fetchone() / fetchall() returns what the tables hold now.
fetch_end(t) ==
    /\ sq_pc[t] = "in_fetch"
    /\ sq_on_connection' = sq_on_connection \ {t}
    /\ \E exception \in not_found(t, statement(t)) :
         LET call == [sq_call EXCEPT ![t] = fetched(@, statement(t), exception)]
         IN IF statement(t).commit
            THEN /\ sq_pc' = [sq_pc EXCEPT ![t] = "commit"]
                 /\ sq_call' = call
            ELSE /\ sq_pc' = [sq_pc EXCEPT ![t] = after_statement(t)]
                 /\ sq_call' = [call EXCEPT ![t].sections = <<Tail(Head(@))>> \o Tail(@)]
    /\ UNCHANGED <<sq_lock, sq_uncommitted, sq_table, sq_faults>>
    /\ UNCHANGED <<ev_vars, vf_vars, graph_vars, cmp_vars, bp_vars, ap_vars>>

\* connection.commit() is entered: execute() line 94, create_resource lines 309, 326.
commit_begin(t) ==
    /\ sq_pc[t] = "commit"
    /\ sq_on_connection' = sq_on_connection \cup {t}
    /\ sq_pc' = [sq_pc EXCEPT ![t] = "in_commit"]
    /\ UNCHANGED <<sq_lock, sq_call, sq_uncommitted, sq_table, sq_faults>>
    /\ UNCHANGED <<ev_vars, vf_vars, graph_vars, cmp_vars, bp_vars, ap_vars>>

\* connection.commit() returns, or raises sqlite3.OperationalError.
commit_end(t) ==
    /\ sq_pc[t] = "in_commit"
    /\ sq_on_connection' = sq_on_connection \ {t}
    /\ \E raised \in BOOLEAN :
         IF raised
         THEN /\ sq_pc' = [sq_pc EXCEPT ![t] = "release"]
              /\ sq_call' = abandon(t, "DatabaseCommitError")
              /\ sq_faults' = TRUE
              /\ UNCHANGED sq_uncommitted
         ELSE /\ sq_uncommitted' = FALSE
              /\ sq_pc' = [sq_pc EXCEPT ![t] = after_statement(t)]
              /\ sq_call' = next_statement(t)
              /\ UNCHANGED sq_faults
    /\ UNCHANGED <<sq_lock, sq_table>>
    /\ UNCHANGED <<ev_vars, vf_vars, graph_vars, cmp_vars, bp_vars, ap_vars>>

\* The call of thread t is over: it returns, or raises sq_call[t].raised.
leave(t) ==
    /\ sq_pc' = [sq_pc EXCEPT ![t] = "idle"]
    /\ sq_call' = [sq_call EXCEPT ![t] = NoStoreCall]

\* A `finally` that gives the lock back only when the section did not raise.
release_unless_raised(t) ==
    /\ sq_pc[t] = "release"
    /\ sq_lock' = IF sq_call[t].raised \in {"none", "ResourceNotFound", "AttributeNotFound"}
                  THEN None ELSE sq_lock
    /\ IF sq_call[t].raised /= "none" \/ Tail(sq_call[t].sections) = <<>>
       THEN leave(t)
       ELSE /\ sq_pc' = [sq_pc EXCEPT ![t] = "acquire"]
            /\ sq_call' = [sq_call EXCEPT ![t].sections = Tail(sq_call[t].sections)]
    /\ UNCHANGED <<sq_on_connection, sq_uncommitted, sq_table, sq_faults>>
    /\ UNCHANGED <<ev_vars, vf_vars, graph_vars, cmp_vars, bp_vars, ap_vars>>

\* The `finally` of execute() (line 98) and of lock_db() (line 66): the lock is released
\* whether the section raised or not.  The method then raises what the section raised,
\* or the not-found exception for the row it fetched, or goes on to its next execute().
release(t) ==
    /\ sq_pc[t] = "release"
    /\ sq_lock' = None
    /\ IF sq_call[t].raised /= "none" \/ Tail(sq_call[t].sections) = <<>>
       THEN leave(t)
       ELSE /\ sq_pc' = [sq_pc EXCEPT ![t] = "acquire"]
            /\ sq_call' = [sq_call EXCEPT ![t].sections = Tail(sq_call[t].sections)]
    /\ UNCHANGED <<sq_on_connection, sq_uncommitted, sq_table, sq_faults>>
    /\ UNCHANGED <<ev_vars, vf_vars, graph_vars, cmp_vars, bp_vars, ap_vars>>

\* Thread t enters create_resource with a resource no other call creates (the classes of
\* the writers are distinct), get_resource with a path the store holds, or
\* get_all_resources.
resource_call(t) ==
    /\ sq_pc[t] = "idle"
    /\ \/ \E path \in Paths :
            /\ ~sq_table[path].row
            /\ \A u \in Threads : ~(sq_call[u].op = "create_resource" /\ sq_call[u].path = path)
            /\ sq_call' = [sq_call EXCEPT
                              ![t] = StoreCall("create_resource", path, create_resource_rows(path))]
       \/ \E path \in Paths :
            /\ sq_table[path].row
            /\ sq_call' = [sq_call EXCEPT
                              ![t] = StoreCall("get_resource", path, get_resource(path))]
       \/ sq_call' = [sq_call EXCEPT
                         ![t] = StoreCall("get_all_resources", None, get_all_resources)]
    /\ sq_pc' = [sq_pc EXCEPT ![t] = "acquire"]
    /\ UNCHANGED <<sq_lock, sq_on_connection, sq_uncommitted, sq_table, sq_faults>>
    /\ UNCHANGED <<ev_vars, vf_vars, graph_vars, cmp_vars, bp_vars, ap_vars>>

SqliteInit ==
    /\ GraphIdle
    /\ CmpIdle
    /\ BlueprintIdle
    /\ ApplyIdle
    /\ SqIdle
    /\ EvIdle
    /\ VfIdle

SqliteNext ==
    \E t \in Threads :
        \/ store_call(t)
        \/ acquire(t)
        \/ execute_begin(t)
        \/ execute_end(t)
        \/ fetch_begin(t)
        \/ fetch_end(t)
        \/ commit_begin(t)
        \/ commit_end(t)
        \/ release(t)

SpecSqlite == SqliteInit /\ [][SqliteNext]_vars

\* The steps thread t takes inside a method once it has the lock or has released it.
store_step(t) ==
    \/ execute_begin(t)
    \/ execute_end(t)
    \/ fetch_begin(t)
    \/ fetch_end(t)
    \/ commit_begin(t)
    \/ commit_end(t)
    \/ release(t)

StoreNext ==
    \E t \in Threads :
        \/ resource_call(t)
        \/ acquire(t)
        \/ store_step(t)

\* Writers and readers on one open store.
SpecStore == SqliteInit /\ [][StoreNext]_vars

\* A thread inside a method goes on running, and a thread that waits for the lock while
\* the lock is free again and again gets it in the end.
SpecStoreFair ==
    /\ SpecStore
    /\ \A t \in Threads : WF_vars(store_step(t)) /\ SF_vars(acquire(t))

C26_ResolveLeavesGraphUnchanged ==
    resolve_call.status /= "none"
    => /\ nodes = resolve_call.input
       /\ LET again == resolve(nodes, resolve_call.reverse)
          IN  /\ again.status = resolve_call.status
              /\ again.phases = resolve_call.phases
              /\ again.error_nodes = resolve_call.error_nodes

\* The registered objects that cannot be placed because of an unregistered
\* dependency: those that depend, directly or not, on an object never registered.
NeedsUnregistered(g) ==
    {o \in Registered(g) : ~(DependsClosure(g, DepSet(g, o)) \subseteq Registered(g))}

\* C27: with a dependency on an object that was never registered, resolve()
\* raises CircularDependency; the depending node and every node that depends on
\* it are in the error's node list and in no phase, cycle or not.
C27_UnregisteredDependencyRaises ==
    (resolve_call.status /= "none" /\ ~AllRegistered(resolve_call.input))
    => /\ resolve_call.status = "CircularDependency"
       /\ resolve_call.phases = <<>>
       /\ NeedsUnregistered(resolve_call.input)
            \subseteq Range(NodeObjs(resolve_call.error_nodes))
       /\ NeedsUnregistered(resolve_call.input)
            \cap PhaseObjs(resolve_call.placed, Len(resolve_call.placed)) = {}

\* No cycle: one node depends on an unregistered object, a second node depends
\* on the first; both are reported.
C27_Witness ==
    /\ resolve_call.status = "CircularDependency"
    /\ ~HasCycle(resolve_call.input)
    /\ Cardinality(NeedsUnregistered(resolve_call.input)) = 2
    /\ \E o \in Registered(resolve_call.input) :
         /\ DepSet(resolve_call.input, o) \subseteq Registered(resolve_call.input)
         /\ o \in NeedsUnregistered(resolve_call.input)
    /\ Len(resolve_call.error_nodes) = 2

(***************************************************************************)
(* graph.py: one Graph.resolve() call followed pass by pass                *)
(***************************************************************************)
\* The graphs of k registered objects, each with a dependency list over Objs
\* (registered or not), within the edge bound.
GraphsOf(k) ==
    {g \in {[i \in 1..k |-> [obj |-> i, dependencies |-> d[i]]] :
                d \in [1..k -> DepLists(MaxEdges)]} :
        TotalEdges(g) <= MaxEdges}

Graphs == UNION {GraphsOf(k) : k \in 0..MaxObjs}

\* resolve(reverse) has been entered on a graph built with add_node: lines 56-62.
ResolveInit ==
    /\ SqIdle
    /\ EvIdle
    /\ VfIdle
    /\ CmpIdle
    /\ BlueprintIdle
    /\ ApplyIdle
    /\ \E g \in Graphs, reverse \in BOOLEAN :
         /\ nodes = g
         /\ resolve_call = [NoCall EXCEPT !.reverse = reverse, !.input = g]
         /\ resolve_nodes = g
    /\ deleted = <<>>
    /\ resolve_pc = "loop"
    /\ resolve_phases = <<>>

\* The Node objects of the working dict are those of Graph._nodes: what a pass
\* removes from their dependency lists is removed in Graph._nodes as well.
shared_nodes(registered, working) ==
    [i \in 1..Len(registered) |->
        IF \E j \in 1..Len(working) : working[j].obj = registered[i].obj
        THEN working[CHOOSE j \in 1..Len(working) : working[j].obj = registered[i].obj]
        ELSE registered[i]]

\* One pass of `while nodes:` (lines 65-104).
resolve_pass_step ==
    /\ resolve_pc = "loop"
    /\ resolve_nodes /= <<>>
    /\ LET pass == resolve_pass(resolve_nodes)
       IN  /\ resolve_nodes' = pass.nodes
           /\ nodes' = shared_nodes(nodes, pass.nodes)
           /\ IF pass.raised
              THEN /\ resolve_pc' = "raised"
                   /\ resolve_call' = [resolve_call EXCEPT
                                          !.status = "CircularDependency",
                                          !.placed = resolve_phases,
                                          !.error_nodes = pass.nodes]
                   /\ UNCHANGED resolve_phases
              ELSE /\ resolve_phases' = Append(resolve_phases, pass.current_phase)
                   /\ UNCHANGED <<resolve_pc, resolve_call>>
    /\ UNCHANGED deleted
    /\ UNCHANGED <<ev_vars, vf_vars, sq_vars, cmp_vars, bp_vars, ap_vars>>

\* The loop is left with the working dict empty: lines 106-110.
resolve_return ==
    /\ resolve_pc = "loop"
    /\ resolve_nodes = <<>>
    /\ resolve_pc' = "done"
    /\ resolve_call' = [resolve_call EXCEPT
                           !.status = "ok",
                           !.phases = IF resolve_call.reverse
                                      THEN Reverse(resolve_phases) ELSE resolve_phases,
                           !.placed = resolve_phases]
    /\ UNCHANGED <<nodes, deleted, resolve_nodes, resolve_phases>>
    /\ UNCHANGED <<ev_vars, vf_vars, sq_vars, cmp_vars, bp_vars, ap_vars>>

ResolveNext == resolve_pass_step \/ resolve_return

\* The thread that called resolve() keeps running.
SpecResolve == ResolveInit /\ [][ResolveNext]_vars /\ WF_vars(ResolveNext)

\* The call followed pass by pass ends as resolve() computed at once.
ResolveStepsAgree ==
    resolve_pc \in {"done", "raised"}
    => LET r == resolve(resolve_call.input, resolve_call.reverse)
       IN  /\ resolve_call.status = r.status
           /\ resolve_call.phases = r.phases
           /\ resolve_call.placed = r.placed
           /\ resolve_call.error_nodes = r.error_nodes
           /\ nodes = r.nodes

\* C25: every pass of the loop of resolve() removes at least one node from the
\* working dict or raises CircularDependency, and the call ends: it returns with
\* the working dict empty, or it raises.
C25_ResolveTerminates ==
    /\ [][resolve_pass_step
            => (Len(resolve_nodes') < Len(resolve_nodes) \/ resolve_pc' = "raised")]_vars
    /\ [](resolve_pc = "done" => resolve_nodes = <<>>)
    /\ <>(resolve_pc \in {"done", "raised"})

\* resolve() returned after three passes that each placed one node of a chain.
C25_Witness ==
    /\ resolve_pc = "done"
    /\ Len(resolve_phases) = MaxObjs
    /\ Len(resolve_call.input) = MaxObjs

(***************************************************************************)
(* Further properties of diff() and apply().                               *)
(***************************************************************************)
\* The position of the persist_blueprint entry in the log, 0 when there is none.
PersistedAt ==
    IF \E i \in 1..Len(ap_log) : ap_log[i].op = "persist_blueprint"
    THEN CHOOSE i \in 1..Len(ap_log) : ap_log[i].op = "persist_blueprint"
    ELSE 0

\* The resources apply() finds in the destination blueprint and not in the source.
RemovedSet == {r \in Res : dest_bp.resources[r].present /\ ~src_bp.resources[r].present}

\* C24: apply() resolves the source graph first, and a CircularDependency ends it
\* before any store change; it then deletes exactly the destination resources
\* that are not in the source, then replaces the stored packages and modules,
\* and only then invokes create, modify or rebuild on a resource of a phase.
C24_ApplyStepOrder ==
    /\ ap_outcome = "CircularDependency"
         => (ap_log = <<>> /\ db_blueprint = "destination" /\ ap_phases = <<>>)
    /\ ap_pc \in {"delete_removed", "persist", "phase"} => ap_phases /= <<>> \/ src_bp.resources = NoBlueprint.resources
    /\ \A i \in 1..Len(ap_log) :
         IF ap_log[i].op = "persist_blueprint"
         THEN i = PersistedAt
         ELSE IF ap_log[i].resource \in RemovedSet
         THEN /\ ap_log[i].op = "delete"
              /\ PersistedAt = 0 \/ i < PersistedAt
         ELSE /\ src_bp.resources[ap_log[i].resource].present
              /\ PersistedAt /= 0 /\ PersistedAt < i
    /\ PersistedAt /= 0
         => /\ db_blueprint = "source"
            /\ \A r \in RemovedSet :
                 /\ ~db_resources[r].present
                 /\ \E i \in 1..(PersistedAt - 1) : ap_log[i] = LogEntry("delete", r)
    /\ PersistedAt = 0 => db_blueprint = "destination"

\* apply() deleted two removed resources, persisted the blueprint and then
\* created a new resource.
C24_Witness ==
    /\ PersistedAt = 3
    /\ Cardinality(RemovedSet) = 2
    /\ Len(ap_log) = 4
    /\ ap_log[4].op = "create"
    /\ db_resources[ap_log[4].resource].present
    /\ ap_outcome = "ok"

(***************************************************************************)
(* diff() called more than once on one StackzillaDiff, then apply()        *)
(***************************************************************************)
RediffNext == diff_call \/ diff_call_reloaded \/ apply_start

SpecRediff == ApplyInit /\ [][RediffNext]_vars

\* C28: the diff result that `result`, print() and apply() use was computed from
\* the blueprints the StackzillaDiff holds, the ones apply() walks.
C28_ResultMatchesBlueprints ==
    diff_result.computed => diff_result_of = diff_loads

(***************************************************************************)
(* diff() and apply() on blueprints whose classes declare a dynamic        *)
(* attribute                                                               *)
(***************************************************************************)
\* The attributes of every class: the first one dynamic (no default, assigned by
\* create()) and rebuild-on-change when rebuild is set, the others with default 1.
DynamicClassAttrs(rebuild) ==
    [n \in AttrNames |->
        [declared |-> TRUE, default |-> IF n = 1 THEN None ELSE 1,
         modify_rebuild |-> (n = 1) /\ rebuild,
         dynamic |-> n = 1, assigned |-> FALSE, value |-> None]]

\* Blueprints without dependencies: each resource is absent, new in the source,
\* in both blueprints and stored, or gone from the source.
ConvergeInit ==
    /\ SqIdle
    /\ EvIdle
    /\ VfIdle
    /\ GraphIdle
    /\ CmpIdle
    /\ ApplyIdle
    /\ \E rebuild \in BOOLEAN :
         \E kind \in [Res -> {"absent", "new", "both", "gone"}] :
           \E values \in [Res -> [AttrNames -> Values]] :
            /\ \A r \in Res : kind[r] /= "both" => values[r] = [n \in AttrNames |-> 1]
            /\ src_bp = [prefixed |-> TRUE,
                         resources |-> [r \in Res |->
                            IF InSource(kind[r])
                            THEN [present |-> TRUE, depends_on |-> <<>>,
                                  attrs |-> DynamicClassAttrs(rebuild),
                                  version |-> ClassVersion]
                            ELSE NoClass]]
            /\ dest_bp = [prefixed |-> TRUE,
                          resources |-> [r \in Res |->
                            IF InDestination(kind[r])
                            THEN [present |-> TRUE, depends_on |-> <<>>,
                                  attrs |-> DynamicClassAttrs(rebuild),
                                  version |-> ClassVersion]
                            ELSE NoClass]]
            /\ db_resources = [r \in Res |->
                            IF InStore(kind[r])
                            THEN [present |-> TRUE, values |-> values[r],
                                  version |-> ClassVersion]
                            ELSE NoRow]
    /\ db_blueprint = "destination"
    /\ diff_result = NoResult
    /\ last_call = NoCallYet
    /\ diff_unloadable = {}
    /\ diff_loads = 0
    /\ diff_result_of = 0

SpecConverge == ConvergeInit /\ [][ApplyNext]_vars

\* The source blueprint loaded again from disk and the blueprint the store now
\* holds (the source's packages and modules), diffed against the store.
FreshDiff ==
    diff([prefixed |-> TRUE, resources |-> src_bp.resources],
         [prefixed |-> TRUE, resources |-> src_bp.resources],
         db_resources)

\* C29: when diff(S, D) succeeded and apply() returned without raising, the store
\* holds exactly the resources of S, each with S's value for every attribute
\* that is not dynamic, and a fresh diff of S against the store is SAME for
\* every resource.
C29_ApplyConverges ==
    (/\ ap_outcome = "ok"
     /\ \E r \in Res : src_bp.resources[r].present)
    => /\ \A r \in Res :
            /\ db_resources[r].present <=> src_bp.resources[r].present
            /\ src_bp.resources[r].present
                 => \A n \in AttrNames :
                      (src_bp.resources[r].attrs[n].declared
                       /\ ~src_bp.resources[r].attrs[n].dynamic)
                      => db_resources[r].values[n]
                            = get_attribute_value(new_instance(src_bp.resources[r]), n)
       /\ FreshDiff.outcome = "ok"
       /\ \A r \in Res :
            src_bp.resources[r].present
            => FreshDiff.result.resource_diffs[r].result = "SAME"

\* The resource at `path` is in the store with all its attributes.
Complete(path) == sq_table[path] = [row |-> TRUE, attributes |-> StoreAttrs]

\* C21: as long as no sqlite3 call has failed, (1) the lock is never free, nor about to
\* be released, with an uncommitted write on the connection; (2) a resource row without
\* all its attribute rows exists only while the create_resource call that writes it holds
\* the lock, so what a reader fetches is a resource with all its attributes or no
\* resource; (3) no create_resource, get_resource or get_all_resources call raises; (4) a
\* create_resource call that returns leaves its resource complete, and no step takes a
\* row away again.
C21_ReadersSeeWholeResources ==
    /\ [](~sq_faults =>
            /\ (sq_lock = None \/ \E t \in Threads : sq_pc[t] = "release") => ~sq_uncommitted
            /\ \A path \in Paths :
                 (sq_table[path].row /\ ~Complete(path))
                 => \E t \in Threads : /\ sq_lock = t
                                       /\ sq_call[t].op = "create_resource"
                                       /\ sq_call[t].path = path
            /\ \A t \in Threads :
                 /\ sq_pc[t] \in {"fetch", "in_fetch"}
                    => \A path \in Paths : sq_table[path].row => Complete(path)
                 /\ sq_call[t].raised = "none"
                 /\ (sq_pc[t] = "release" /\ sq_call[t].op = "create_resource")
                    => Complete(sq_call[t].path))
    /\ [][\A path \in Paths :
            /\ sq_table[path].row => sq_table'[path].row
            /\ sq_table'[path].attributes >= sq_table[path].attributes]_vars

\* A get_all_resources call that fetched one resource in pass 1 is in its pass 2 and
\* fetches the attribute of that resource while the other thread, inside create_resource,
\* waits for the lock to write the second resource.
C21_Witness ==
    \E t, u \in Threads :
        /\ ~sq_faults
        /\ sq_call[t].op = "get_all_resources"
        /\ sq_call[t].paths /= <<>>
        /\ sq_pc[t] = "in_fetch"
        /\ statement(t).what = "select_attribute"
        /\ sq_call[u].op = "create_resource"
        /\ sq_pc[u] = "acquire"

\* C30: a thread that has left a StackzillaSQLiteDB method (it returned, or raised after a
\* failed statement, a failed commit, a closed store or a row not found) does not hold the
\* lock, no thread waits for the lock while holding it, and under fair scheduling every
\* thread that waits for the lock gets it.
C30_LockAlwaysReleased ==
    /\ [](\A t \in Threads : sq_pc[t] \in {"idle", "acquire"} => sq_lock /= t)
    /\ \A t \in Threads : (sq_pc[t] = "acquire") ~> (sq_lock = t)

\* A commit has failed in one thread's call, which is about to release the lock, while
\* the other thread waits for the lock.
C30_Witness ==
    \E t, u \in Threads :
        /\ sq_pc[t] = "release"
        /\ sq_lock = t
        /\ sq_call[t].raised = "DatabaseCommitError"
        /\ sq_pc[u] = "acquire"

(***************************************************************************)
(* events/events.py: StackzillaEvent.                                      *)
(***************************************************************************)
\* del s[i]
RemoveAt(s, i) == SubSeq(s, 1, i - 1) \o SubSeq(s, i + 1, Len(s))

\* The number of references to handler h in a _handlers list.
Attachments(s, h) == Cardinality({i \in 1..Len(s) : s[i] = h})

\* The `for ref in self._handlers` loop of invoke(), from list index i on: the list
\* iterator reads self._handlers[i] while i is below the list's CURRENT length, and the body
\* removes the dead reference it is looking at from that same list.  A dead weak
\* reference equals only itself, so list.remove(ref) drops the element at index i.
RECURSIVE invoke_loop(_, _, _, _)
invoke_loop(handlers, i, alive, called) ==
    IF i > Len(handlers) THEN [handlers |-> handlers, called |-> called]
    ELSE IF handlers[i] \in alive
         THEN invoke_loop(handlers, i + 1, alive, [called EXCEPT ![handlers[i]] = @ + 1])
         ELSE invoke_loop(RemoveAt(handlers, i), i + 1, alive, called)

\* The index of the first reference detatch() finds with ref() == handler, 0 if none.
RECURSIVE first_ref(_, _, _, _)
first_ref(handlers, i, alive, handler) ==
    IF i > Len(handlers) THEN 0
    ELSE IF handlers[i] \in alive /\ handlers[i] = handler THEN i
    ELSE first_ref(handlers, i + 1, alive, handler)

\* event.attach(handler): a function or bound method the caller holds.
attach(handler) ==
    /\ handler \in ev_alive
    /\ Len(ev_handlers) < MaxAttached
    /\ ev_handlers' = Append(ev_handlers, handler)
    /\ ev_call' = [NoEventCall EXCEPT !.op = "attach", !.handler = handler,
                                      !.handlers = ev_handlers, !.alive = ev_alive]
    /\ UNCHANGED ev_alive
    /\ UNCHANGED <<vf_vars, sq_vars, graph_vars, cmp_vars, bp_vars, ap_vars>>

\* event.detatch(handler): the caller holds the handler, so its target is alive.
detatch(handler) ==
    /\ handler \in ev_alive
    /\ LET i == first_ref(ev_handlers, 1, ev_alive, handler)
       IN /\ ev_handlers' = IF i = 0 THEN ev_handlers ELSE RemoveAt(ev_handlers, i)
          /\ ev_call' = [NoEventCall EXCEPT
                            !.op = "detatch", !.handler = handler,
                            !.handlers = ev_handlers, !.alive = ev_alive,
                            !.raised = IF i = 0 THEN "HandlerNotFound" ELSE "none"]
    /\ UNCHANGED ev_alive
    /\ UNCHANGED <<vf_vars, sq_vars, graph_vars, cmp_vars, bp_vars, ap_vars>>

\* The last strong reference to a handler's function or owner goes away and the garbage
\* collector frees it: the weak references in _handlers stay where they are, dead.
collect(handler) ==
    /\ handler \in ev_alive
    /\ ev_alive' = ev_alive \ {handler}
    /\ UNCHANGED <<ev_handlers, ev_call>>
    /\ UNCHANGED <<vf_vars, sq_vars, graph_vars, cmp_vars, bp_vars, ap_vars>>

\* event.invoke(sender) with handlers that accept `sender` and do not raise.
invoke ==
    /\ LET r == invoke_loop(ev_handlers, 1, ev_alive, [h \in Handlers |-> 0])
       IN /\ ev_handlers' = r.handlers
          /\ ev_call' = [NoEventCall EXCEPT !.op = "invoke", !.called = r.called,
                                            !.handlers = ev_handlers, !.alive = ev_alive]
    /\ UNCHANGED ev_alive
    /\ UNCHANGED <<vf_vars, sq_vars, graph_vars, cmp_vars, bp_vars, ap_vars>>

EventsInit ==
    /\ GraphIdle
    /\ CmpIdle
    /\ BlueprintIdle
    /\ ApplyIdle
    /\ SqIdle
    /\ EvIdle
    /\ VfIdle

EventsNext ==
    \/ \E handler \in Handlers : attach(handler)
    \/ \E handler \in Handlers : detatch(handler)
    \/ \E handler \in Handlers : collect(handler)
    \/ invoke

SpecEvents == EventsInit /\ [][EventsNext]_vars

\* C23, first half: every invoke() calls each handler whose target is alive once for each
\* time it is attached, and calls no handler whose target was collected (a detached
\* handler is no longer in the list the call started from).
C23_InvokeCallsEveryLiveHandler ==
    ev_call.op = "invoke" =>
        \A h \in Handlers :
            ev_call.called[h] = IF h \in ev_call.alive
                                THEN Attachments(ev_call.handlers, h)
                                ELSE 0

\* C23, second half: detatch() of a handler that is not attached raises HandlerNotFound
\* and leaves _handlers as it was; detatch() of an attached one removes one reference to
\* it and no other.
C23_DetatchNotAttachedRaises ==
    ev_call.op = "detatch" =>
        LET attached == \E i \in 1..Len(ev_call.handlers) : ev_call.handlers[i] = ev_call.handler
        IN /\ (ev_call.raised = "HandlerNotFound") <=> ~attached
           /\ ~attached => ev_handlers = ev_call.handlers
           /\ \A h \in Handlers :
                 Attachments(ev_handlers, h) =
                     Attachments(ev_call.handlers, h)
                         - (IF attached /\ h = ev_call.handler THEN 1 ELSE 0)

(***************************************************************************)
(* resource/base.py: StackzillaResource.verify().                          *)
(***************************************************************************)
\* bool(value)
truthy(value) ==
    CASE value.type = "NoneType" -> FALSE
      [] value.type = "list" -> value.items /= <<>>
      [] OTHER -> value.v /= 0

\* StackzillaRange.in_range(value) compares min <= value <= max: Python raises TypeError
\* when value is None, a str or a list.
in_range_raises(attribute) ==
    attribute.number_range.given /\ attribute.value.type /= "int"

\* One pass of the body of `for attr_name, attribute in self.attributes.items()`: the
\* messages add_attribute_error is given, in order.
verify_attribute(attribute) ==
    LET value == attribute.value
        \* one message for each item of a list that is no choice, one for any other
        \* value that is no choice
        choice_errors ==
            IF attribute.choices = {} THEN <<>>
            ELSE IF value.type = "list"
                 THEN [i \in 1..Cardinality({j \in 1..Len(value.items) :
                                                PyInt(value.items[j]) \notin attribute.choices})
                          |-> "choice"]
                 ELSE IF value \notin attribute.choices THEN <<"choice">> ELSE <<>>
        required_errors ==
            IF attribute.required /\ value = PyNone THEN <<"required">> ELSE <<>>
        dynamic_errors ==
            IF attribute.dynamic /\ value /= PyNone THEN <<"dynamic">> ELSE <<>>
        range_errors ==
            IF /\ attribute.number_range.given
               /\ ~(attribute.number_range.min <= value.v /\ value.v <= attribute.number_range.max)
            THEN <<"range">> ELSE <<>>
        \* `for type_check in attribute.types`: one message for EVERY allowed type the
        \* value's class is no subclass of; the block is skipped for a falsy value.
        \* (Among NoneType, int, str and list, issubclass is equality.)
        type_errors ==
            IF attribute.types /= <<>> /\ truthy(value)
            THEN [i \in 1..Cardinality({j \in 1..Len(attribute.types) :
                                           attribute.types[j] /= value.type})
                     |-> "type"]
            ELSE <<>>
    IN choice_errors \o required_errors \o dynamic_errors \o range_errors \o type_errors

\* verify(): the TypeError of in_range leaves the loop at once; otherwise the messages
\* of all attributes are collected and ResourceVerifyError is raised if there is one.
verify(resource) ==
    IF \E n \in AttrNames : in_range_raises(resource[n])
    THEN [called |-> TRUE, raised |-> "TypeError",
          attribute_errors |-> [n \in AttrNames |-> <<>>]]
    ELSE LET errors == [n \in AttrNames |-> verify_attribute(resource[n])]
         IN [called |-> TRUE,
             raised |-> IF \E n \in AttrNames : errors[n] /= <<>>
                        THEN "ResourceVerifyError" ELSE "none",
             attribute_errors |-> errors]

VerifyValues == {PyNone, PyInt(0), PyInt(1), PyValue("str", 1, <<>>),
                 PyValue("list", 0, <<0>>), PyValue("list", 0, <<1>>)}

\* The attribute declarations and values verify() is given.
VerifyAttributes ==
    [choices : {{}, {PyInt(1)}},
     required : BOOLEAN,
     dynamic : BOOLEAN,
     number_range : {[given |-> FALSE, min |-> 0, max |-> 0],
                     [given |-> TRUE, min |-> 1, max |-> 1]},
     types : {<<>>, <<"int">>, <<"int", "str">>},
     value : VerifyValues]

VerifyInit ==
    /\ GraphIdle
    /\ CmpIdle
    /\ BlueprintIdle
    /\ ApplyIdle
    /\ SqIdle
    /\ EvIdle
    /\ vf_resource \in [AttrNames -> VerifyAttributes]
    /\ vf_result = NoVerify

verify_call ==
    /\ ~vf_result.called
    /\ vf_result' = verify(vf_resource)
    /\ UNCHANGED vf_resource
    /\ UNCHANGED <<ev_vars, sq_vars, graph_vars, cmp_vars, bp_vars, ap_vars>>

VerifyNext == verify_call

SpecVerify == VerifyInit /\ [][VerifyNext]_vars

\* What the claim calls a violation of an attribute: (a) choices, (b) required,
\* (c) dynamic, (d) number range, (e) the value's type is none of the allowed types
\* (a falsy value is left unchecked, as the code leaves it).
Violations(attribute) ==
    LET value == attribute.value
    IN (IF /\ attribute.choices /= {}
           /\ IF value.type = "list"
              THEN \E j \in 1..Len(value.items) : PyInt(value.items[j]) \notin attribute.choices
              ELSE value \notin attribute.choices
        THEN {"choice"} ELSE {})
       \cup (IF attribute.required /\ value = PyNone THEN {"required"} ELSE {})
       \cup (IF attribute.dynamic /\ value /= PyNone THEN {"dynamic"} ELSE {})
       \cup (IF /\ attribute.number_range.given
                /\ ~(attribute.number_range.min <= value.v
                     /\ value.v <= attribute.number_range.max)
             THEN {"range"} ELSE {})
       \cup (IF /\ attribute.types /= <<>>
                /\ truthy(value)
                /\ \A i \in 1..Len(attribute.types) : attribute.types[i] /= value.type
             THEN {"type"} ELSE {})

\* C22: when verify() returns or raises ResourceVerifyError, the error lists exactly the
\* attributes that violate a constraint, each with all its violations, and nothing is
\* raised when no attribute violates one; the type constraint is satisfied as soon as
\* the value's type is one of the allowed types.
C22_VerifyListsEveryViolation ==
    (vf_result.called /\ vf_result.raised /= "TypeError") =>
        /\ \A n \in AttrNames : Range(vf_result.attribute_errors[n]) = Violations(vf_resource[n])
        /\ (vf_result.raised = "ResourceVerifyError")
               <=> (\E n \in AttrNames : Violations(vf_resource[n]) /= {})

====
